---- MODULE Spec2Model ----
(***************************************************************************)
(* The REST API of navigo-rides-cf-backend as a state machine.             *)
(*                                                                         *)
(* State: the four tables the controllers write (users, drivers, vehicles, *)
(* schools), the autoincrement counters, the wall clock, and the requests  *)
(* in flight.  Every controller is an async function: between two awaited  *)
(* database calls another request may run, so a handler is one action      *)
(* whose steps are its database round trips (req[p].pc is the call the     *)
(* handler waits for); the code between two calls runs with the call       *)
(* before it.                                                              *)
(*                                                                         *)
(* Strings are drawn from a small universe; regular expressions, case      *)
(* conversion and parseInt are tabulated over that universe.               *)
(***************************************************************************)
EXTENDS Integers, FiniteSets, Sequences, TLC

VARIABLES users, drivers, vehicles, schools, seq, now, req, nreq

db == <<users, drivers, vehicles, schools, seq>>
vars == <<users, drivers, vehicles, schools, seq, now, req, nreq>>

\* Bounds of the exploration.
MaxReq == 2       \* requests served after the provisioning script
MaxClock == 2     \* the clock reads 1..MaxClock

Procs == {1, 2}   \* concurrent invocations of the worker

\* SQL NULL / JS null in a text column, and in a timestamp column.
NULL == "null"
NoTime == 0

-----------------------------------------------------------------------------
(* Generic helpers: JS objects are records with a varying set of keys.     *)

Has(b, k) == k \in DOMAIN b

Merge_ResetsActive(row, upd) ==
  [k \in DOMAIN row |-> IF k \in DOMAIN upd THEN upd[k]
                        ELSE IF k = "isActive" THEN TRUE ELSE row[k]]

Merge(row, upd) ==
  [k \in DOMAIN row |-> IF k \in DOMAIN upd THEN upd[k] ELSE row[k]]

Put(b, k, v) ==
  [x \in DOMAIN b \cup {k} |-> IF x = k THEN v ELSE b[x]]

Only(b, keys) == [k \in DOMAIN b \cap keys |-> b[k]]

\* !body[field] for a text field
Falsy(b, k) == ~Has(b, k) \/ b[k] \in {NULL, ""}

Truthy(b, k) == ~Falsy(b, k)

-----------------------------------------------------------------------------
(* String functions, tabulated over the strings the requests use.          *)

LowerTable == [s \in {"C@X.IN", "SOFT", "HARD"} |->
                 CASE s = "C@X.IN" -> "c@x.in"
                   [] s = "SOFT" -> "soft"
                   [] s = "HARD" -> "hard"]
UpperTable == [s \in {"dl00000002", "dps_001", "dps_002", "ka01ab1235"} |->
                 CASE s = "dl00000002" -> "DL00000002"
                   [] s = "dps_001" -> "DPS_001"
                   [] s = "dps_002" -> "DPS_002"
                   [] s = "ka01ab1235" -> "KA01AB1235"]
\* trim, and runs of white space collapsed to one space
TrimTable == [s \in {" 9000000003 ", "KA01 AB  1235"} |->
                 CASE s = " 9000000003 " -> "9000000003"
                   [] s = "KA01 AB  1235" -> "KA01 AB 1235"]

toLowerCase(s) == IF s \in DOMAIN LowerTable THEN LowerTable[s] ELSE s
toUpperCase(s) == IF s \in DOMAIN UpperTable THEN UpperTable[s] ELSE s
sanitizeInput(s) == IF s \in DOMAIN TrimTable THEN TrimTable[s] ELSE s

\* parseInt / Number of a path segment or of a query-string value; the
\* strings outside the table are NaN
IntTable == [s \in {"1", "2", "3", "4", "5", "0", "-1", "10", "100", "101",
                    "2020", "2021"} |->
                 CASE s = "1" -> 1 [] s = "2" -> 2 [] s = "3" -> 3
                   [] s = "4" -> 4 [] s = "5" -> 5 [] s = "0" -> 0
                   [] s = "-1" -> -1 [] s = "10" -> 10 [] s = "100" -> 100
                   [] s = "101" -> 101 [] s = "2020" -> 2020
                   [] s = "2021" -> 2021]
isNaN(s) == s \notin DOMAIN IntTable
\* the number NaN, which is no integer and compares false with every number
NaN == -1000000
parseInt(s) == IF isNaN(s) THEN NaN ELSE IntTable[s]
parseFloat(s) == parseInt(s)
MathMax(a, b) == IF a = NaN \/ b = NaN THEN NaN ELSE IF a >= b THEN a ELSE b
MathMin(a, b) == IF a = NaN \/ b = NaN THEN NaN ELSE IF a <= b THEN a ELSE b
\* Math.ceil(a / b) for a >= 0 and b >= 1
MathCeilDiv(a, b) == IF a = NaN \/ b = NaN THEN NaN ELSE (a + b - 1) \div b
LessThan(a, b) == a # NaN /\ b # NaN /\ a < b

\* uuidv4(): a value never produced before
UuidTable == <<"u1", "u2", "u3", "u4", "u5", "u6">>
uuidv4 == UuidTable[seq.uuid + 1]

(* Validators: the source's regular expressions on the string universe.    *)
validateEmail(s) == s \in {"a@x.in", "b@x.in", "c@x.in"}
validatePhone(s) == s \in {"9000000001", "9000000002", "9000000003"}
validateName(s) == s \in {"Asha", "Rao", "Ravi Rao"}
validateLicenseNumber(s) ==
  s \in {"DL00000001", "DL00000002", "DL00000003", "dl00000002"}
validateAadhar(s) == s \in {"100000000001", "100000000002", "100000000003"}
validatePAN(s) == s \in {"ABCDE1234F", "ABCDE1234G"}
\* new Date(s) of the YYYY-MM-DD strings: <<getFullYear, month, getDate>>
DateTable ==
  [s \in {"2031-12-31", "2001-01-01", "2014-01-01", "2013-06-15",
          "2013-06-16", "1906-01-01", "1905-01-01", "1905-12-31",
          "1900-12-31"} |->
     CASE s = "2031-12-31" -> <<2031, 12, 31>>
       [] s = "2001-01-01" -> <<2001, 1, 1>>
       [] s = "2014-01-01" -> <<2014, 1, 1>>
       [] s = "2013-06-15" -> <<2013, 6, 15>>
       [] s = "2013-06-16" -> <<2013, 6, 16>>
       [] s = "1906-01-01" -> <<1906, 1, 1>>
       [] s = "1905-01-01" -> <<1905, 1, 1>>
       [] s = "1905-12-31" -> <<1905, 12, 31>>
       [] s = "1900-12-31" -> <<1900, 12, 31>>]
validateDateFormat(s) == s \in DOMAIN DateTable
\* new Date() when the clock reads t: one day passes with each tick
Today(t) == <<2026, 6, 15 + t>>
isValidAge(dateOfBirth, t) ==
  LET birthDate == DateTable[dateOfBirth]
      today == Today(t)
      age == today[1] - birthDate[1]
      monthDiff == today[2] - birthDate[2]
  IN IF monthDiff < 0 \/ (monthDiff = 0 /\ today[3] < birthDate[3])
       THEN age - 1 >= 13
       ELSE age >= 13 /\ age <= 120
isDateInFuture(s) == s \in {"2031-12-31"}
validateImageUrl(s) == s \in {"https://x.in/a.jpg", "http://x.in/b.jpg"}
\* .replace(/\s/g, ''): all white space removed
StripTable == [s \in {"KA01 AB 1234", "KA01 AB 1235", "KA01 AB  1235"} |->
                 CASE s = "KA01 AB 1234" -> "KA01AB1234"
                   [] s = "KA01 AB 1235" -> "KA01AB1235"
                   [] s = "KA01 AB  1235" -> "KA01AB1235"]
stripSpaces(s) == IF s \in DOMAIN StripTable THEN StripTable[s] ELSE s
\* /^[A-Z]{2}\d{1,2}[A-Z]{1,2}\d{1,4}$/
regPattern(s) == s \in {"KA01AB1234", "KA01AB1235", "KA01AB1236"}
validateRegistrationNumber(s) == regPattern(stripSpaces(toUpperCase(s)))
validateYear(y) == y \in {2020}
validateSchoolCode(s) == s \in {"DPS_001", "DPS_002", "DPS_003"}

-----------------------------------------------------------------------------
(* The schema: unique indexes, foreign keys, cascades.                     *)

UniqueIn(T, col) ==
  \A r1, r2 \in T : r1 # r2 => r1[col] # r2[col]

\* a unique index admits any number of NULLs
UniqueNonNull(T, col) ==
  \A r1, r2 \in T : (r1 # r2 /\ r1[col] # NULL) => r1[col] # r2[col]

UsersUnique_NoEmailIndex(T) ==
  UniqueIn(T, "id") /\ UniqueIn(T, "phoneNumber") /\ UniqueIn(T, "uuid")

UsersUnique(T) ==
  /\ UniqueIn(T, "id")
  /\ UniqueIn(T, "email")
  /\ UniqueIn(T, "phoneNumber")
  /\ UniqueIn(T, "uuid")

\* the migration creates no unique index on drivers.user_uuid
DriversUnique(T) ==
  /\ UniqueIn(T, "id")
  /\ UniqueIn(T, "licenseNumber")
  /\ UniqueIn(T, "aadharNumber")
  /\ UniqueNonNull(T, "panNumber")

VehiclesUnique(T) == UniqueIn(T, "id") /\ UniqueIn(T, "registrationNumber")

SchoolsUnique(T) == UniqueIn(T, "id") /\ UniqueIn(T, "code")

\* drivers.user_uuid references users.uuid
DriversFK(D, U) == \A d \in D : \E u \in U : u.uuid = d.user_uuid

\* vehicles.driver_id references drivers.id
VehiclesFK(V, D) == \A v \in V : \E d \in D : d.id = v.driverId

CascadeDrivers_None(D, U) == D

\* ON DELETE CASCADE of drivers.user_uuid and of vehicles.driver_id
CascadeDrivers(D, U) == {d \in D : \E u \in U : u.uuid = d.user_uuid}
CascadeVehicles(V, D) == {v \in V : \E d \in D : d.id = v.driverId}

UNIQUE == "UNIQUE constraint failed"
FOREIGN == "FOREIGN KEY constraint failed"
THROWN == "SyntaxError"
OK == "ok"

\* The error a write statement raises on the tables it would leave.
WriteError(U, D, V, S) ==
  IF ~(UsersUnique(U) /\ DriversUnique(D) /\ VehiclesUnique(V) /\ SchoolsUnique(S))
    THEN UNIQUE
  ELSE IF ~(DriversFK(D, U) /\ VehiclesFK(V, D)) THEN FOREIGN
  ELSE OK

CatchStatus_DriverNoUniqueBranch(h, err) ==
  IF h \in {"deleteUser", "deleteDriver", "deleteVehicle"} THEN 500
  ELSE IF err = UNIQUE /\ h \notin {"createDriver", "updateDriver"} THEN 409
  ELSE IF err = FOREIGN /\ h \in {"createVehicle", "updateVehicle"} THEN 400
  ELSE 500

\* The status each controller's catch block answers for an error.
CatchStatus(h, err) ==
  IF h \in {"deleteUser", "deleteDriver", "deleteVehicle"} THEN 500
  ELSE IF err = UNIQUE THEN 409
  ELSE IF err = FOREIGN /\ h \in {"createVehicle", "updateVehicle"} THEN 400
  ELSE 500

-----------------------------------------------------------------------------
(* Requests and the router.                                                *)

Idle == [h |-> "idle", pc |-> "idle", param |-> <<>>, body |-> <<>>,
         hasBody |-> FALSE, loc |-> <<>>, status |-> 0, data |-> {},
         err |-> OK, at |-> NoTime, request |-> <<>>, msg |-> <<>>,
         pagination |-> <<>>]

\* app.route('/users', userRoutes) etc.: the handler and its path parameters
Dispatch(r) ==
  LET m == r.method
      e == r.path[1]
      a == r.path[2]
      n == Len(r.path)
  IN
  IF e = "users" THEN
    IF m = "POST" /\ a = "create" /\ n = 2 THEN [h |-> "createUser", param |-> <<>>]
    ELSE IF m = "PATCH" /\ a = "update" /\ n = 3
      THEN [h |-> "updateUser", param |-> [uuid |-> r.path[3]]]
    ELSE IF m = "GET" /\ a = "get-all" /\ n = 2 THEN [h |-> "getUsers", param |-> <<>>]
    ELSE IF m = "DELETE" /\ a = "delete" /\ n = 4
      THEN [h |-> "deleteUser", param |-> [deleteType |-> r.path[3], uuid |-> r.path[4]]]
    ELSE [h |-> "notFound", param |-> <<>>]
  ELSE IF e = "driver" THEN
    IF m = "POST" /\ a = "create" /\ n = 2 THEN [h |-> "createDriver", param |-> <<>>]
    ELSE IF m = "PATCH" /\ a = "update" /\ n = 3
      THEN [h |-> "updateDriver", param |-> [uuid |-> r.path[3]]]
    ELSE IF m = "GET" /\ a = "get-all" /\ n = 2
      THEN [h |-> "getAllDrivers", param |-> <<>>]
    ELSE IF m = "DELETE" /\ a = "delete" /\ n = 4
      THEN [h |-> "deleteDriver", param |-> [uuid |-> r.path[3], mode |-> r.path[4]]]
    ELSE [h |-> "notFound", param |-> <<>>]
  ELSE IF e = "vehicle" THEN
    IF m = "POST" /\ a = "create" /\ n = 2 THEN [h |-> "createVehicle", param |-> <<>>]
    ELSE IF m = "PATCH" /\ a = "update" /\ n = 3
      THEN [h |-> "updateVehicle", param |-> [id |-> r.path[3]]]
    ELSE IF m = "GET" /\ a = "get-all" /\ n = 2
      THEN [h |-> "getVehicles", param |-> <<>>]
    ELSE IF m = "DELETE" /\ a = "delete" /\ n = 4
      THEN [h |-> "deleteVehicle", param |-> [id |-> r.path[3], deleteType |-> r.path[4]]]
    ELSE [h |-> "notFound", param |-> <<>>]
  ELSE IF e = "school" THEN
    IF m = "POST" /\ a = "create" /\ n = 2 THEN [h |-> "createSchool", param |-> <<>>]
    ELSE IF m = "PATCH" /\ a = "update" /\ n = 3
      THEN [h |-> "updateSchool", param |-> [id |-> r.path[3]]]
    ELSE IF m = "GET" /\ a = "get-filtered" /\ n = 2
      THEN [h |-> "getSchools", param |-> <<>>]
    \* '/get/:id' is registered before '/get/:code' and answers every match
    ELSE IF m = "GET" /\ a = "get" /\ n = 3
      THEN [h |-> "getSchoolById", param |-> [id |-> r.path[3]]]
    ELSE IF m = "DELETE" /\ a = "delete" /\ n = 4
      THEN [h |-> "updateSchool", param |-> [id |-> r.path[3], deleteType |-> r.path[4]]]
    ELSE [h |-> "notFound", param |-> <<>>]
  ELSE [h |-> "notFound", param |-> <<>>]

Busy(p) == req[p].pc \notin {"idle", "done"}

Respond_ThrowsAfterInsert(p, st, rows) ==
  req' = [req EXCEPT ![p].pc = "done", ![p].status = IF st = 201 THEN 500 ELSE st,
                     ![p].data = rows]

\* return c.json(..., status)
Respond(p, st, rows) ==
  req' = [req EXCEPT ![p].pc = "done", ![p].status = st, ![p].data = rows]

FirstMissing_Last(requiredFields, missing) ==
  requiredFields[Len(requiredFields)]

\* the first of the required fields, in the controller's order, that the body
\* lacks
FirstMissing(requiredFields, missing) ==
  requiredFields[CHOOSE i \in 1..Len(requiredFields) :
                   /\ requiredFields[i] \in missing
                   /\ \A j \in 1..(i - 1) : requiredFields[j] \notin missing]

\* return c.json({success: false, message: `${field} is required`}, 400)
Require(p, field) ==
  req' = [req EXCEPT ![p].pc = "done", ![p].status = 400, ![p].data = {},
                     ![p].msg = <<field, "is required">>]

\* return c.json({success: false, message}, st)
Reject(p, st, message) ==
  req' = [req EXCEPT ![p].pc = "done", ![p].status = st, ![p].data = {},
                     ![p].msg = <<message>>]

\* catch (error) { ... return c.json(..., status) }
Catch(p, err) ==
  req' = [req EXCEPT ![p].pc = "done", ![p].status = CatchStatus(req[p].h, err),
                     ![p].err = err]

\* the handler awaits its next database call, with its locals
Goto(p, pc, loc) ==
  req' = [req EXCEPT ![p].pc = pc, ![p].loc = loc]

Post(e, b) ==
  [method |-> "POST", path |-> <<e, "create">>, hasBody |-> TRUE, body |-> b]
Patch(e, id, b) ==
  [method |-> "PATCH", path |-> <<e, "update", id>>, hasBody |-> TRUE, body |-> b]
Delete(e, s1, s2) ==
  [method |-> "DELETE", path |-> <<e, "delete", s1, s2>>, hasBody |-> FALSE,
   body |-> <<>>]
DeleteWithBody(e, s1, s2) ==
  [method |-> "DELETE", path |-> <<e, "delete", s1, s2>>, hasBody |-> TRUE,
   body |-> <<>>]
Get(e, s1) ==
  [method |-> "GET", path |-> <<e, "get", s1>>, hasBody |-> FALSE, body |-> <<>>]
List(e, a, q) ==
  [method |-> "GET", path |-> <<e, a>>, hasBody |-> FALSE, body |-> <<>>,
   query |-> q]

-----------------------------------------------------------------------------
(* users                                                                   *)

UserBody(email, phone) ==
  [email |-> email, phoneNumber |-> phone, firstName |-> "Asha", lastName |-> "Rao"]

UserRequired == {"email", "phoneNumber", "firstName", "lastName"}

UserRequiredFields == <<"email", "phoneNumber", "firstName", "lastName">>

SanitizeCreateUser(b) ==
  [b EXCEPT !.email = sanitizeInput(toLowerCase(b.email)),
            !.phoneNumber = sanitizeInput(b.phoneNumber),
            !.firstName = sanitizeInput(b.firstName),
            !.lastName = sanitizeInput(b.lastName)]

createUser(p) ==
  /\ req[p].h = "createUser" /\ Busy(p)
  /\ UNCHANGED <<now, nreq>>
  /\ LET r == req[p]
         b == r.body
     IN
     IF r.pc = "start" THEN
       /\ UNCHANGED db
       /\ IF ~r.hasBody THEN Catch(p, THROWN)
          ELSE IF \E f \in UserRequired : Falsy(b, f)
            THEN Require(p, FirstMissing(UserRequiredFields,
                                         {f \in UserRequired : Falsy(b, f)}))
          ELSE LET sb == SanitizeCreateUser(b) IN
            IF ~validateEmail(sb.email) \/ ~validatePhone(sb.phoneNumber)
               \/ ~validateName(sb.firstName) \/ ~validateName(sb.lastName)
              THEN Respond(p, 400, {})
            ELSE IF Truthy(b, "dateOfBirth") /\ ~validateDateFormat(b.dateOfBirth)
              THEN Reject(p, 400, "Date of birth must be in YYYY-MM-DD format")
            ELSE IF Truthy(b, "dateOfBirth") /\ ~isValidAge(b.dateOfBirth, now)
              THEN Reject(p, 400, "Age must be between 13 and 120 years")
            ELSE IF \E u \in users :
                      u.email = sb.email \/ u.phoneNumber = sb.phoneNumber
              THEN Respond(p, 409, {})
            ELSE Goto(p, "insert", [body |-> sb])
     ELSE
       LET sb == r.loc.body
           row == [id |-> seq.users + 1, uuid |-> uuidv4, email |-> sb.email,
                   phoneNumber |-> sb.phoneNumber,
                   dateOfBirth |-> IF Truthy(sb, "dateOfBirth") THEN sb.dateOfBirth
                                   ELSE NULL,
                   isActive |-> TRUE, createdAt |-> now, updatedAt |-> now]
           U == users \cup {row}
           err == WriteError(U, drivers, vehicles, schools)
       IN
       IF err # OK
         THEN UNCHANGED db /\ Catch(p, err)
         ELSE /\ users' = U
              /\ seq' = [seq EXCEPT !.users = @ + 1, !.uuid = @ + 1]
              /\ UNCHANGED <<drivers, vehicles, schools>>
              /\ Respond(p, 201, {row})

UserUpdatable == {"email", "phoneNumber", "dateOfBirth", "isActive"}

updateUser(p) ==
  /\ req[p].h = "updateUser" /\ Busy(p)
  /\ UNCHANGED <<now, nreq>>
  /\ LET r == req[p]
         b == r.body
         id == r.param.uuid
         \* the code after the phone section, up to the write
         AfterPhone(loc) ==
           IF Truthy(loc.body, "dateOfBirth")
              /\ ~validateDateFormat(loc.body.dateOfBirth)
             THEN Reject(p, 400, "Date of birth must be in YYYY-MM-DD format")
           ELSE IF Truthy(loc.body, "dateOfBirth")
                   /\ ~isValidAge(loc.body.dateOfBirth, now)
             THEN Reject(p, 400, "Age must be between 13 and 120 years")
           ELSE Goto(p, "write", loc)
         \* the code after the email section, up to the next database call
         AfterEmail(sb) ==
           IF Has(sb, "phoneNumber") THEN
             LET sb2 == [sb EXCEPT !.phoneNumber = sanitizeInput(sb.phoneNumber)] IN
             IF ~validatePhone(sb2.phoneNumber) THEN Respond(p, 400, {})
             ELSE Goto(p, "phone", [r.loc EXCEPT !.body = sb2])
           ELSE AfterPhone([r.loc EXCEPT !.body = sb])
     IN
     IF r.pc = "start" THEN
       /\ UNCHANGED db
       /\ IF ~r.hasBody THEN Catch(p, THROWN)
          ELSE IF id = "" THEN Respond(p, 400, {})
          ELSE IF ~\E u \in users : u.uuid = id THEN Respond(p, 404, {})
          ELSE
            IF Has(b, "email") THEN
              LET sb == [b EXCEPT !.email = sanitizeInput(toLowerCase(b.email))] IN
              IF ~validateEmail(sb.email) THEN Respond(p, 400, {})
              ELSE Goto(p, "email", [body |-> sb, updatedAt |-> now])
            ELSE IF Has(b, "phoneNumber") THEN
              LET sb2 == [b EXCEPT !.phoneNumber = sanitizeInput(b.phoneNumber)] IN
              IF ~validatePhone(sb2.phoneNumber) THEN Respond(p, 400, {})
              ELSE Goto(p, "phone", [body |-> sb2, updatedAt |-> now])
            ELSE AfterPhone([body |-> b, updatedAt |-> now])
     ELSE IF r.pc = "email" THEN
       /\ UNCHANGED db
       /\ IF \E u \in users : u.email = r.loc.body.email /\ u.uuid # id
            THEN Respond(p, 409, {})
            ELSE AfterEmail(r.loc.body)
     ELSE IF r.pc = "phone" THEN
       /\ UNCHANGED db
       /\ IF \E u \in users : u.phoneNumber = r.loc.body.phoneNumber /\ u.uuid # id
            THEN Respond(p, 409, {})
            ELSE AfterPhone(r.loc)
     ELSE
       LET upd == Put(Only(r.loc.body, UserUpdatable), "updatedAt", r.loc.updatedAt)
           U == {IF u.uuid = id THEN Merge(u, upd) ELSE u : u \in users}
           err == WriteError(U, drivers, vehicles, schools)
       IN
       IF err # OK
         THEN UNCHANGED db /\ Catch(p, err)
         ELSE /\ users' = U
              /\ UNCHANGED <<drivers, vehicles, schools, seq>>
              /\ Respond(p, 200, {u \in U : u.uuid = id})

deleteUser(p) ==
  /\ req[p].h = "deleteUser" /\ Busy(p)
  /\ UNCHANGED <<now, nreq>>
  /\ LET r == req[p]
         id == r.param.uuid
         deleteType == IF r.param.deleteType = "" THEN "soft" ELSE r.param.deleteType
     IN
     IF r.pc = "start" THEN
       /\ UNCHANGED db
       /\ IF id = "" THEN Respond(p, 400, {})
          ELSE IF deleteType \notin {"soft", "hard"} THEN Respond(p, 400, {})
          ELSE IF ~\E u \in users : u.uuid = id THEN Respond(p, 404, {})
          ELSE Goto(p, "write", <<>>)
     ELSE IF deleteType = "soft" THEN
       LET U == {IF u.uuid = id THEN Merge(u, [isActive |-> FALSE, updatedAt |-> now])
                 ELSE u : u \in users}
       IN /\ users' = U
          /\ UNCHANGED <<drivers, vehicles, schools, seq>>
          /\ Respond(p, 200, {u \in U : u.uuid = id})
     ELSE
       LET U == {u \in users : u.uuid # id}
           D == CascadeDrivers(drivers, U)
       IN /\ users' = U
          /\ drivers' = D
          /\ vehicles' = CascadeVehicles(vehicles, D)
          /\ UNCHANGED <<schools, seq>>
          /\ Respond(p, 200, {u \in users : u.uuid = id})

-----------------------------------------------------------------------------
(* drivers                                                                 *)

DriverBody(uuid, license, aadhar) ==
  [user_uuid |-> uuid, licenseNumber |-> license, licenseExpiryDate |-> "2031-12-31",
   licenseImageUrl |-> "https://x.in/a.jpg", aadharNumber |-> aadhar,
   aadharImageUrl |-> "https://x.in/a.jpg", emergencyContactName |-> "Ravi Rao",
   emergencyContactPhone |-> "9000000003"]

DriverRequired ==
  {"user_uuid", "licenseNumber", "licenseExpiryDate", "licenseImageUrl",
   "aadharNumber", "aadharImageUrl", "emergencyContactName", "emergencyContactPhone"}

DriverRequiredFields ==
  <<"user_uuid", "licenseNumber", "licenseExpiryDate", "licenseImageUrl",
    "aadharNumber", "aadharImageUrl", "emergencyContactName",
    "emergencyContactPhone">>

\* the columns of the drivers table the model keeps, with the schema's defaults
DriverDefaults ==
  [id |-> 0, user_uuid |-> NULL, licenseNumber |-> NULL,
   licenseImageUrl |-> NULL, aadharNumber |-> NULL, aadharImageUrl |-> NULL,
   panNumber |-> NULL, backgroundCheckStatus |-> "pending", status |-> "pending",
   approvedAt |-> NoTime, rejectedAt |-> NoTime, rejectionReason |-> NULL,
   totalRides |-> 0, totalEarnings |-> 0, isOnline |-> FALSE,
   lastOnlineAt |-> NoTime, createdAt |-> NoTime, updatedAt |-> NoTime]

DriverStatuses ==
  {"pending", "under_review", "approved", "rejected", "suspended", "inactive"}

\* .values({...body, panNumber: body.panNumber || null, ..., createdAt, updatedAt})
DriverRow(b, id, t) ==
  [k \in DOMAIN DriverDefaults |->
     IF k = "panNumber" THEN (IF Truthy(b, k) THEN b[k] ELSE NULL)
     ELSE IF k \in {"createdAt", "updatedAt"} THEN t
     ELSE IF Has(b, k) THEN b[k]
     ELSE IF k = "id" THEN id
     ELSE DriverDefaults[k]]

createDriver(p) ==
  /\ req[p].h = "createDriver" /\ Busy(p)
  /\ UNCHANGED <<now, nreq>>
  /\ LET r == req[p]
         b == r.body
     IN
     IF r.pc = "start" THEN
       /\ UNCHANGED db
       /\ IF ~r.hasBody THEN Catch(p, THROWN)
          ELSE IF \E f \in DriverRequired : Falsy(b, f)
            THEN Require(p, FirstMissing(DriverRequiredFields,
                                         {f \in DriverRequired : Falsy(b, f)}))
          ELSE IF \/ ~validateLicenseNumber(b.licenseNumber)
                  \/ ~validateDateFormat(b.licenseExpiryDate)
                  \/ ~isDateInFuture(b.licenseExpiryDate)
                  \/ ~validateAadhar(b.aadharNumber)
                  \/ ~validatePhone(b.emergencyContactPhone)
                  \/ (Truthy(b, "panNumber") /\ ~validatePAN(b.panNumber))
            THEN Respond(p, 400, {})
          ELSE IF ~\E u \in users : u.uuid = b.user_uuid THEN Respond(p, 404, {})
          ELSE Goto(p, "driver", <<>>)
     ELSE IF r.pc = "driver" THEN
       /\ UNCHANGED db
       /\ IF \E d \in drivers : d.user_uuid = b.user_uuid THEN Respond(p, 409, {})
          ELSE Goto(p, "dup", <<>>)
     ELSE IF r.pc = "dup" THEN
       /\ UNCHANGED db
       /\ IF \E d \in drivers :
               \/ d.licenseNumber = b.licenseNumber
               \/ d.aadharNumber = b.aadharNumber
               \/ (Truthy(b, "panNumber") /\ d.panNumber = b.panNumber)
            THEN Respond(p, 409, {})
            ELSE Goto(p, "insert", <<>>)
     ELSE
       LET row == DriverRow(b, seq.drivers + 1, now)
           D == drivers \cup {row}
           err == WriteError(users, D, vehicles, schools)
       IN
       IF err # OK
         THEN UNCHANGED db /\ Catch(p, err)
         ELSE /\ drivers' = D
              /\ seq' = [seq EXCEPT !.drivers = @ + 1]
              /\ UNCHANGED <<users, vehicles, schools>>
              /\ Respond(p, 201, {row})

DriverUpdatable ==
  {"licenseNumber", "aadharNumber", "panNumber", "status", "rejectionReason",
   "isOnline"}

\* the body as updateDriver rewrites it field by field
SanitizeUpdateDriver(b) ==
  [k \in DOMAIN b |->
     IF k = "licenseNumber" THEN sanitizeInput(toUpperCase(b[k]))
     ELSE IF k = "aadharNumber" THEN sanitizeInput(b[k])
     ELSE IF k = "panNumber" /\ Truthy(b, k) THEN sanitizeInput(toUpperCase(b[k]))
     ELSE b[k]]

InvalidUpdateDriver(sb) ==
  \/ (Has(sb, "licenseNumber") /\ ~validateLicenseNumber(sb.licenseNumber))
  \/ (Has(sb, "aadharNumber") /\ ~validateAadhar(sb.aadharNumber))
  \/ (Truthy(sb, "panNumber") /\ ~validatePAN(sb.panNumber))
  \/ (Has(sb, "status") /\ sb.status \notin DriverStatuses)

StatusTimestamps_NoDelta(upd, b, existing, t) ==
  LET u1 == IF Has(b, "status") /\ b.status = "approved"
              THEN Put(Put(Put(upd, "approvedAt", t), "rejectedAt", NoTime),
                       "rejectionReason", NULL)
            ELSE IF Has(b, "status") /\ b.status = "rejected"
                    /\ existing.status # "rejected"
              THEN Put(Put(upd, "rejectedAt", t), "approvedAt", NoTime)
            ELSE upd
  IN IF Has(b, "isOnline") /\ b.isOnline # existing.isOnline
       THEN Put(u1, "lastOnlineAt", t)
       ELSE u1

StatusTimestamps_ReasonRequired(upd, b, existing, t) ==
  LET u1 == IF Has(b, "status") /\ b.status = "approved" /\ existing.status # "approved"
              THEN Put(Put(Put(upd, "approvedAt", t), "rejectedAt", NoTime),
                       "rejectionReason", NULL)
            ELSE IF Has(b, "status") /\ b.status = "rejected"
                    /\ existing.status # "rejected" /\ Has(b, "rejectionReason")
              THEN Put(Put(upd, "rejectedAt", t), "approvedAt", NoTime)
            ELSE upd
  IN IF Has(b, "isOnline") /\ b.isOnline # existing.isOnline
       THEN Put(u1, "lastOnlineAt", t)
       ELSE u1

StatusTimestamps_StampsEveryOnline(upd, b, existing, t) ==
  LET u1 == IF Has(b, "status") /\ b.status = "approved" /\ existing.status # "approved"
              THEN Put(Put(Put(upd, "approvedAt", t), "rejectedAt", NoTime),
                       "rejectionReason", NULL)
            ELSE IF Has(b, "status") /\ b.status = "rejected"
                    /\ existing.status # "rejected"
              THEN Put(Put(upd, "rejectedAt", t), "approvedAt", NoTime)
            ELSE upd
  IN IF Has(b, "isOnline") THEN Put(u1, "lastOnlineAt", t) ELSE u1

\* "Handle status updates with timestamps" and "Update online status timestamp"
StatusTimestamps(upd, b, existing, t) ==
  LET u1 == IF Has(b, "status") /\ b.status = "approved" /\ existing.status # "approved"
              THEN Put(Put(Put(upd, "approvedAt", t), "rejectedAt", NoTime),
                       "rejectionReason", NULL)
            ELSE IF Has(b, "status") /\ b.status = "rejected"
                    /\ existing.status # "rejected"
              THEN Put(Put(upd, "rejectedAt", t), "approvedAt", NoTime)
            ELSE upd
  IN IF Has(b, "isOnline") /\ b.isOnline # existing.isOnline
       THEN Put(u1, "lastOnlineAt", t)
       ELSE u1

updateDriver(p) ==
  /\ req[p].h = "updateDriver" /\ Busy(p)
  /\ UNCHANGED <<now, nreq>>
  /\ LET r == req[p]
         b == r.body
         id == r.param.uuid
     IN
     IF r.pc = "start" THEN
       /\ UNCHANGED db
       /\ IF ~r.hasBody THEN Catch(p, THROWN)
          ELSE IF id = "" THEN Respond(p, 400, {})
          ELSE IF ~\E d \in drivers : d.user_uuid = id THEN Respond(p, 404, {})
          ELSE \E existing \in {d \in drivers : d.user_uuid = id} :
            LET sb == SanitizeUpdateDriver(b)
                upd == Put(Only(sb, DriverUpdatable), "updatedAt", now)
            IN
            IF InvalidUpdateDriver(sb) THEN Respond(p, 400, {})
            ELSE IF Truthy(sb, "licenseNumber") \/ Truthy(sb, "aadharNumber")
                    \/ Truthy(sb, "panNumber")
              THEN Goto(p, "dup", [body |-> sb, existing |-> existing, upd |-> upd])
            ELSE Goto(p, "write",
                      [body |-> sb, existing |-> existing,
                       upd |-> StatusTimestamps(upd, sb, existing, now)])
     ELSE IF r.pc = "dup" THEN
       /\ UNCHANGED db
       /\ LET sb == r.loc.body IN
          IF \E d \in drivers :
               /\ d.user_uuid # id
               /\ \/ (Truthy(sb, "licenseNumber") /\ d.licenseNumber = sb.licenseNumber)
                  \/ (Truthy(sb, "aadharNumber") /\ d.aadharNumber = sb.aadharNumber)
                  \/ (Truthy(sb, "panNumber") /\ d.panNumber = sb.panNumber)
            THEN Respond(p, 409, {})
            ELSE Goto(p, "write",
                      [r.loc EXCEPT !.upd = StatusTimestamps(@, sb, r.loc.existing, now)])
     ELSE
       LET D == {IF d.user_uuid = id THEN Merge(d, r.loc.upd) ELSE d : d \in drivers}
           err == WriteError(users, D, vehicles, schools)
       IN
       IF err # OK
         THEN UNCHANGED db /\ Catch(p, err)
         ELSE /\ drivers' = D
              /\ UNCHANGED <<users, vehicles, schools, seq>>
              /\ IF \E d \in D : d.user_uuid = id
                   THEN \E d \in {x \in D : x.user_uuid = id} : Respond(p, 200, {d})
                   ELSE Respond(p, 200, {})

SoftDeleteDriver_Offline(t) ==
  [status |-> "inactive", isOnline |-> FALSE, updatedAt |-> t]

\* .set({status: 'inactive', updatedAt}) of the soft delete
SoftDeleteDriver(t) == [status |-> "inactive", updatedAt |-> t]

deleteDriver(p) ==
  /\ req[p].h = "deleteDriver" /\ Busy(p)
  /\ UNCHANGED <<now, nreq>>
  /\ LET r == req[p]
         id == r.param.uuid
         mode == toLowerCase(r.param.mode)
     IN
     IF r.pc = "start" THEN
       /\ UNCHANGED db
       /\ IF id = "" THEN Respond(p, 400, {})
          ELSE IF mode = "" \/ mode \notin {"soft", "hard"} THEN Respond(p, 400, {})
          ELSE IF ~\E d \in drivers : d.user_uuid = id THEN Respond(p, 404, {})
          ELSE Goto(p, "write", <<>>)
     ELSE IF mode = "soft" THEN
       /\ drivers' = {IF d.user_uuid = id THEN Merge(d, SoftDeleteDriver(now)) ELSE d
                      : d \in drivers}
       /\ UNCHANGED <<users, vehicles, schools, seq>>
       /\ Respond(p, 200, {})
     ELSE
       LET D == {d \in drivers : d.user_uuid # id} IN
       /\ drivers' = D
       /\ vehicles' = CascadeVehicles(vehicles, D)
       /\ UNCHANGED <<users, schools, seq>>
       /\ Respond(p, 200, {})

-----------------------------------------------------------------------------
(* vehicles                                                                *)

VehicleBody(driverId, type, reg, capacity) ==
  [driverId |-> driverId, vehicleType |-> type, registrationNumber |-> reg,
   make |-> "Toyota", model |-> "Innova", year |-> 2020, color |-> "White",
   capacity |-> capacity, rcImageUrl |-> "https://x.in/a.jpg",
   insuranceCertUrl |-> "https://x.in/a.jpg", insuranceExpiryDate |-> "2031-12-31"]

VehicleRequired ==
  {"driverId", "vehicleType", "registrationNumber", "make", "model", "year",
   "color", "capacity", "rcImageUrl", "insuranceCertUrl", "insuranceExpiryDate"}

VehicleRequiredFields ==
  <<"driverId", "vehicleType", "registrationNumber", "make", "model", "year",
    "color", "capacity", "rcImageUrl", "insuranceCertUrl", "insuranceExpiryDate">>

VehicleText ==
  {"vehicleType", "registrationNumber", "make", "model", "color", "rcImageUrl",
   "insuranceCertUrl", "insuranceExpiryDate"}

\* body[field] === undefined || === null || === ''
Missing(b, k) == ~Has(b, k) \/ (k \in VehicleText /\ b[k] \in {NULL, ""})

VehicleTypes == {"auto", "car", "bike", "bus", "van"}

capacityLimits ==
  [bike |-> [min |-> 1, max |-> 2], auto |-> [min |-> 2, max |-> 6],
   car |-> [min |-> 4, max |-> 8], van |-> [min |-> 6, max |-> 15],
   bus |-> [min |-> 10, max |-> 60]]

validateCapacity(capacity, vehicleType) ==
  IF vehicleType \in DOMAIN capacityLimits
    THEN capacity >= capacityLimits[vehicleType].min
         /\ capacity <= capacityLimits[vehicleType].max
    ELSE TRUE

createVehicle(p) ==
  /\ req[p].h = "createVehicle" /\ Busy(p)
  /\ UNCHANGED <<now, nreq>>
  /\ LET r == req[p]
         b == r.body
     IN
     IF r.pc = "start" THEN
       /\ UNCHANGED db
       /\ IF ~r.hasBody THEN Catch(p, THROWN)
          ELSE IF \E f \in VehicleRequired : Missing(b, f)
            THEN Require(p, FirstMissing(VehicleRequiredFields,
                                         {f \in VehicleRequired : Missing(b, f)}))
          ELSE LET sb == [b EXCEPT !.registrationNumber =
                                      sanitizeInput(toUpperCase(b.registrationNumber))]
               IN
            IF ~\E d \in drivers : d.id = sb.driverId THEN Respond(p, 404, {})
            ELSE IF \/ sb.vehicleType \notin VehicleTypes
                    \/ ~validateRegistrationNumber(sb.registrationNumber)
                    \/ ~validateYear(sb.year)
                    \/ ~validateCapacity(sb.capacity, sb.vehicleType)
                    \/ ~validateImageUrl(sb.rcImageUrl)
                    \/ ~validateImageUrl(sb.insuranceCertUrl)
                    \/ ~validateDateFormat(sb.insuranceExpiryDate)
              THEN Respond(p, 400, {})
            ELSE Goto(p, "reg", [body |-> sb])
     ELSE IF r.pc = "reg" THEN
       /\ UNCHANGED db
       /\ IF \E v \in vehicles : v.registrationNumber = r.loc.body.registrationNumber
            THEN Respond(p, 409, {})
            ELSE Goto(p, "insert", r.loc)
     ELSE
       LET sb == r.loc.body
           row == [id |-> seq.vehicles + 1, driverId |-> sb.driverId,
                   vehicleType |-> sb.vehicleType,
                   registrationNumber |-> sb.registrationNumber,
                   year |-> sb.year, capacity |-> sb.capacity, isActive |-> TRUE,
                   createdAt |-> now, updatedAt |-> now]
           V == vehicles \cup {row}
           err == WriteError(users, drivers, V, schools)
       IN
       IF err # OK
         THEN UNCHANGED db /\ Catch(p, err)
         ELSE /\ vehicles' = V
              /\ seq' = [seq EXCEPT !.vehicles = @ + 1]
              /\ UNCHANGED <<users, drivers, schools>>
              /\ Respond(p, 201, {row})

VehicleUpdatable ==
  {"driverId", "vehicleType", "registrationNumber", "capacity", "isActive"}

\* updateVehicle's checks of the fields after registrationNumber
InvalidUpdateVehicle(b, existing) ==
  \/ (Has(b, "year") /\ ~validateYear(b.year))
  \/ /\ Has(b, "capacity")
     /\ ~validateCapacity(b.capacity,
                          IF Truthy(b, "vehicleType") THEN b.vehicleType
                          ELSE existing.vehicleType)

updateVehicle(p) ==
  /\ req[p].h = "updateVehicle" /\ Busy(p)
  /\ UNCHANGED <<now, nreq>>
  /\ LET r == req[p]
         b == r.body
         \* from the vehicleType section to the next database call
         FromType(loc) ==
           IF Has(b, "vehicleType") /\ b.vehicleType \notin VehicleTypes
             THEN Respond(p, 400, {})
           ELSE IF Has(b, "registrationNumber") THEN
             LET sb == [loc.body EXCEPT !.registrationNumber =
                                   sanitizeInput(toUpperCase(b.registrationNumber))]
             IN IF ~validateRegistrationNumber(sb.registrationNumber)
                  THEN Respond(p, 400, {})
                  ELSE Goto(p, "reg", [loc EXCEPT !.body = sb])
           ELSE IF InvalidUpdateVehicle(loc.body, loc.existing) THEN Respond(p, 400, {})
           ELSE Goto(p, "write", loc)
     IN
     IF r.pc = "start" THEN
       /\ UNCHANGED db
       /\ IF ~r.hasBody THEN Catch(p, THROWN)
          ELSE IF isNaN(r.param.id) THEN Respond(p, 400, {})
          ELSE IF ~\E v \in vehicles : v.id = parseInt(r.param.id)
            THEN Respond(p, 404, {})
          ELSE \E existing \in {v \in vehicles : v.id = parseInt(r.param.id)} :
            LET loc == [body |-> b, existing |-> existing, updatedAt |-> now] IN
            IF Has(b, "driverId") THEN Goto(p, "driver", loc) ELSE FromType(loc)
     ELSE IF r.pc = "driver" THEN
       /\ UNCHANGED db
       /\ IF ~\E d \in drivers : d.id = b.driverId THEN Respond(p, 404, {})
          ELSE FromType(r.loc)
     ELSE IF r.pc = "reg" THEN
       /\ UNCHANGED db
       /\ IF \E v \in vehicles :
               /\ v.registrationNumber = r.loc.body.registrationNumber
               /\ v.id # parseInt(r.param.id)
            THEN Respond(p, 409, {})
          ELSE IF InvalidUpdateVehicle(r.loc.body, r.loc.existing)
            THEN Respond(p, 400, {})
          ELSE Goto(p, "write", r.loc)
     ELSE
       LET id == parseInt(r.param.id)
           upd == Put(Only(r.loc.body, VehicleUpdatable), "updatedAt", r.loc.updatedAt)
           V == {IF v.id = id THEN Merge(v, upd) ELSE v : v \in vehicles}
           err == WriteError(users, drivers, V, schools)
       IN
       IF err # OK
         THEN UNCHANGED db /\ Catch(p, err)
         ELSE /\ vehicles' = V
              /\ UNCHANGED <<users, drivers, schools, seq>>
              /\ Respond(p, 200, {v \in V : v.id = id})

deleteVehicle(p) ==
  /\ req[p].h = "deleteVehicle" /\ Busy(p)
  /\ UNCHANGED <<now, nreq>>
  /\ LET r == req[p]
         deleteType == IF r.param.deleteType = "" THEN "soft" ELSE r.param.deleteType
     IN
     IF r.pc = "start" THEN
       /\ UNCHANGED db
       /\ IF isNaN(r.param.id) THEN Respond(p, 400, {})
          ELSE IF deleteType \notin {"soft", "hard"} THEN Respond(p, 400, {})
          ELSE IF ~\E v \in vehicles : v.id = parseInt(r.param.id)
            THEN Respond(p, 404, {})
          ELSE Goto(p, "write", <<>>)
     ELSE
       LET id == parseInt(r.param.id)
           V == IF deleteType = "soft"
                  THEN {IF v.id = id
                          THEN Merge(v, [isActive |-> FALSE, updatedAt |-> now])
                          ELSE v : v \in vehicles}
                  ELSE {v \in vehicles : v.id # id}
       IN /\ vehicles' = V
          /\ UNCHANGED <<users, drivers, schools, seq>>
          /\ Respond(p, 200, IF deleteType = "soft" THEN {v \in V : v.id = id}
                             ELSE {v \in vehicles : v.id = id})

-----------------------------------------------------------------------------
(* schools                                                                 *)

SchoolBody(code) ==
  [name |-> "Delhi Public School", code |-> code, address |-> "Sector 12",
   latitude |-> 28, longitude |-> 77, city |-> "Delhi", state |-> "Delhi",
   pincode |-> "110001", schoolType |-> "private", startTime |-> "08:00",
   endTime |-> "14:00", workingDays |-> <<"monday">>]

SchoolRequired ==
  {"name", "code", "address", "latitude", "longitude", "city", "state", "pincode",
   "schoolType", "startTime", "endTime", "workingDays"}

SchoolRequiredFields ==
  <<"name", "code", "address", "latitude", "longitude", "city", "state",
    "pincode", "schoolType", "startTime", "endTime", "workingDays">>

createSchool(p) ==
  /\ req[p].h = "createSchool" /\ Busy(p)
  /\ UNCHANGED <<now, nreq>>
  /\ LET r == req[p]
         b == r.body
     IN
     IF r.pc = "start" THEN
       /\ UNCHANGED db
       /\ IF ~r.hasBody THEN Catch(p, THROWN)
          ELSE IF \E f \in SchoolRequired : ~Has(b, f)
            THEN Require(p, FirstMissing(SchoolRequiredFields,
                                         {f \in SchoolRequired : ~Has(b, f)}))
          ELSE LET sb == [b EXCEPT !.code = sanitizeInput(toUpperCase(b.code))] IN
            IF ~validateSchoolCode(sb.code) THEN Respond(p, 400, {})
            ELSE IF \E s \in schools : s.code = sb.code THEN Respond(p, 409, {})
            ELSE Goto(p, "insert", [body |-> sb])
     ELSE
       LET row == [id |-> seq.schools + 1, code |-> r.loc.body.code,
                   isActive |-> TRUE, createdAt |-> now, updatedAt |-> now]
           S == schools \cup {row}
           err == WriteError(users, drivers, vehicles, S)
       IN
       IF err # OK
         THEN UNCHANGED db /\ Catch(p, err)
         ELSE /\ schools' = S
              /\ seq' = [seq EXCEPT !.schools = @ + 1]
              /\ UNCHANGED <<users, drivers, vehicles>>
              /\ Respond(p, 201, {row})

SchoolUpdatable == {"code", "isActive"}

updateSchool(p) ==
  /\ req[p].h = "updateSchool" /\ Busy(p)
  /\ UNCHANGED <<now, nreq>>
  /\ LET r == req[p]
         b == r.body
     IN
     IF r.pc = "start" THEN
       /\ UNCHANGED db
       /\ IF ~r.hasBody THEN Catch(p, THROWN)
          ELSE IF r.param.id = "" \/ isNaN(r.param.id) THEN Respond(p, 400, {})
          ELSE IF ~\E s \in schools : s.id = parseInt(r.param.id)
            THEN Respond(p, 404, {})
          ELSE IF Has(b, "code") THEN
            LET sb == [b EXCEPT !.code = sanitizeInput(toUpperCase(b.code))] IN
            IF ~validateSchoolCode(sb.code) THEN Respond(p, 400, {})
            ELSE Goto(p, "code", [body |-> sb, updatedAt |-> now])
          ELSE Goto(p, "write", [body |-> b, updatedAt |-> now])
     ELSE IF r.pc = "code" THEN
       /\ UNCHANGED db
       /\ IF \E s \in schools :
               s.code = r.loc.body.code /\ s.id # parseInt(r.param.id)
            THEN Respond(p, 409, {})
            ELSE Goto(p, "write", r.loc)
     ELSE
       LET id == parseInt(r.param.id)
           upd == Put(Only(r.loc.body, SchoolUpdatable), "updatedAt", r.loc.updatedAt)
           S == {IF s.id = id THEN Merge(s, upd) ELSE s : s \in schools}
           err == WriteError(users, drivers, vehicles, S)
       IN
       IF err # OK \/ ~\E s \in S : s.id = id
         \* JSON.parse(result[0].workingDays) throws when no row was updated
         THEN UNCHANGED db /\ Catch(p, IF err # OK THEN err ELSE THROWN)
         ELSE /\ schools' = S
              /\ UNCHANGED <<users, drivers, vehicles, seq>>
              /\ Respond(p, 200, {s \in S : s.id = id})

\* one select, so one step
getSchoolById(p) ==
  /\ req[p].h = "getSchoolById" /\ Busy(p)
  /\ UNCHANGED <<db, now, nreq>>
  /\ LET id == req[p].param.id IN
     IF id = "" \/ isNaN(id) THEN Respond(p, 400, {})
     ELSE IF ~\E s \in schools : s.id = parseInt(id) THEN Respond(p, 404, {})
     ELSE Respond(p, 200, {s \in schools : s.id = parseInt(id)})

-----------------------------------------------------------------------------
(* lists                                                                   *)

\* query.page || '1'
OrDefault(q, k, d) == IF Truthy(q, k) THEN q[k] ELSE d

Page(q) == MathMax(1, parseInt(OrDefault(q, "page", "1")))

Limit(q) == MathMin(100, MathMax(1, parseInt(OrDefault(q, "limit", "10"))))

Offset_PageTimesLimit(page, limit) ==
  IF page = NaN \/ limit = NaN THEN NaN ELSE page * limit

Offset(page, limit) ==
  IF page = NaN \/ limit = NaN THEN NaN ELSE (page - 1) * limit

\* a numeric bound that buildFilters pushes only when it parses
Parsed(q, k) == Truthy(q, k) /\ parseInt(q[k]) # NaN

\* sql`${column} >= ${bound}` and sql`${column} <= ${bound}` of a bound that
\* buildFilters pushes without looking at it; a bound of NaN reaches the
\* database as a parameter that compares with nothing
AtLeast(value, bound) == bound # NaN /\ value >= bound
AtMost(value, bound) == bound # NaN /\ value <= bound

\* buildFilters: the rows of the table that satisfy the where condition
Where(h, q, row) ==
  IF h = "getUsers" THEN
    Has(q, "isActive") => row.isActive = (q.isActive = "true")
  ELSE IF h = "getAllDrivers" THEN
    /\ Truthy(q, "status") => row.status = q.status
    /\ Has(q, "isOnline") => row.isOnline = (q.isOnline = "true")
    /\ Parsed(q, "totalRidesFrom") => row.totalRides >= parseInt(q.totalRidesFrom)
    /\ Parsed(q, "totalRidesTo") => row.totalRides <= parseInt(q.totalRidesTo)
    /\ Parsed(q, "totalEarningsFrom") =>
         row.totalEarnings >= parseFloat(q.totalEarningsFrom)
    /\ Parsed(q, "totalEarningsTo") =>
         row.totalEarnings <= parseFloat(q.totalEarningsTo)
  ELSE IF h = "getVehicles" THEN
    /\ Truthy(q, "vehicleType") => row.vehicleType = q.vehicleType
    /\ Has(q, "isActive") => row.isActive = (q.isActive = "true")
    /\ Truthy(q, "yearFrom") => AtLeast(row.year, parseInt(q.yearFrom))
    /\ Truthy(q, "yearTo") => AtMost(row.year, parseInt(q.yearTo))
  ELSE
    Has(q, "isActive") => row.isActive = (q.isActive = "true")

\* the where condition carries a parameter that is NaN
BindsNaN(h, q) ==
  /\ h = "getVehicles"
  /\ \E k \in {"yearFrom", "yearTo"} : Truthy(q, k) /\ parseInt(q[k]) = NaN

Min(a, b) == IF a <= b THEN a ELSE b

\* .orderBy(desc(createdAt)).limit(limit).offset(offset): the row sets the
\* database may return; rows of equal createdAt come in any order
Window(rows, limit, offset) ==
  { S \in SUBSET rows :
      \E B \in SUBSET (rows \ S) :
        /\ Cardinality(B) = Min(offset, Cardinality(rows))
        /\ Cardinality(S) = Min(limit, Cardinality(rows) - Cardinality(B))
        /\ \A b \in B : \A x \in rows \ B : b.createdAt >= x.createdAt
        /\ \A x \in S : \A y \in rows \ (B \cup S) : x.createdAt >= y.createdAt }

\* return c.json({success: true, data, pagination})
RespondList(p, rows, pg) ==
  req' = [req EXCEPT ![p].pc = "done", ![p].status = 200, ![p].data = rows,
                     ![p].pagination = pg]

\* the code the four list controllers share
listRows(p, T) ==
  LET r == req[p]
      q == r.request.query
      page == Page(q)
      limit == Limit(q)
      offset == Offset(page, limit)
      matching == {row \in T : Where(r.h, q, row)}
  IN
  IF r.pc = "start" THEN
    \/ BindsNaN(r.h, q) /\ Catch(p, THROWN)
    \/ Goto(p, "select", [total |-> Cardinality(matching)])
  ELSE
    LET total == r.loc.total
        totalPages == MathCeilDiv(total, limit)
        pg == [page |-> page, limit |-> limit, total |-> total,
               totalPages |-> totalPages, hasNext |-> LessThan(page, totalPages),
               hasPrev |-> LessThan(1, page)]
    IN
    IF offset = NaN
      THEN \/ Catch(p, THROWN)
           \/ RespondList(p, matching, pg)
      ELSE \E S \in Window(matching, limit, offset) : RespondList(p, S, pg)

getUsers(p) ==
  /\ req[p].h = "getUsers" /\ Busy(p)
  /\ UNCHANGED <<db, now, nreq>>
  /\ listRows(p, users)

getAllDrivers(p) ==
  /\ req[p].h = "getAllDrivers" /\ Busy(p)
  /\ UNCHANGED <<db, now, nreq>>
  /\ listRows(p, drivers)

getVehicles(p) ==
  /\ req[p].h = "getVehicles" /\ Busy(p)
  /\ UNCHANGED <<db, now, nreq>>
  /\ listRows(p, vehicles)

getSchools(p) ==
  /\ req[p].h = "getSchools" /\ Busy(p)
  /\ UNCHANGED <<db, now, nreq>>
  /\ listRows(p, schools)

-----------------------------------------------------------------------------
(* The life of a request.                                                  *)

\* The requests that provision the database, served one after the other
\* before any other request.
Script ==
  << Post("users", UserBody("a@x.in", "9000000001")),
     Post("users", UserBody("b@x.in", "9000000002")),
     Post("driver", Put(DriverBody("u1", "DL00000001", "100000000001"),
                        "panNumber", "ABCDE1234F")),
     Post("vehicle", VehicleBody(1, "car", "KA01AB1234", 4)),
     Post("school", SchoolBody("DPS_001")) >>

Provisioned == nreq >= Len(Script)

\* A request arrives and the router hands it to its controller.
StartUpTo(p, Menu, n) ==
  /\ ~Busy(p)
  /\ nreq < Len(Script) + n
  /\ nreq <= Len(Script) => \A q \in Procs : ~Busy(q)
  /\ nreq < Len(Script) => p = 1
  /\ \E r \in (IF nreq < Len(Script) THEN {Script[nreq + 1]} ELSE Menu) :
       LET d == Dispatch(r) IN
       req' = [req EXCEPT ![p] =
                 [h |-> d.h, pc |-> IF d.h = "notFound" THEN "done" ELSE "start",
                  param |-> d.param, body |-> r.body, hasBody |-> r.hasBody,
                  loc |-> <<>>, status |-> IF d.h = "notFound" THEN 404 ELSE 0,
                  data |-> {}, err |-> OK, at |-> now, request |-> r, msg |-> <<>>,
                  pagination |-> <<>>]]
  /\ nreq' = nreq + 1
  /\ UNCHANGED <<db, now>>

Start(p, Menu) == StartUpTo(p, Menu, MaxReq)

\* Time passes.
Tick ==
  /\ Provisioned
  /\ now < MaxClock
  /\ now' = now + 1
  /\ UNCHANGED <<db, req, nreq>>

Init ==
  /\ users = {} /\ drivers = {} /\ vehicles = {} /\ schools = {}
  /\ seq = [users |-> 0, drivers |-> 0, vehicles |-> 0, schools |-> 0, uuid |-> 0]
  /\ now = 1
  /\ req = [p \in Procs |-> Idle]
  /\ nreq = 0

-----------------------------------------------------------------------------
(* Spec: writes of unique values, on all four tables.                      *)

Menu ==
  { Post("users", UserBody("c@x.in", "9000000003")),
    Post("users", UserBody("C@X.IN", " 9000000003 ")),
    Patch("users", "u1", [email |-> "c@x.in"]),
    Patch("users", "u2", [phoneNumber |-> "9000000003"]),
    Delete("users", "hard", "u2"),
    Post("driver", Put(DriverBody("u2", "DL00000002", "100000000002"),
                       "panNumber", "ABCDE1234G")),
    Post("driver", DriverBody("u2", "DL00000003", "100000000003")),
    Patch("driver", "u1", [licenseNumber |-> "dl00000002"]),
    Patch("driver", "u1", [aadharNumber |-> "100000000002", panNumber |-> NULL]),
    Delete("driver", "u1", "hard"),
    Post("vehicle", VehicleBody(1, "car", "KA01AB1235", 4)),
    Patch("vehicle", "1", [registrationNumber |-> "ka01ab1235"]),
    Delete("vehicle", "1", "hard"),
    Post("school", SchoolBody("DPS_002")),
    Patch("school", "1", [code |-> "dps_002"]),
    Delete("school", "1", "hard") }

Next ==
  \E p \in Procs :
    \/ Start(p, Menu)
    \/ createUser(p) \/ updateUser(p) \/ deleteUser(p)
    \/ createDriver(p) \/ updateDriver(p) \/ deleteDriver(p)
    \/ createVehicle(p) \/ updateVehicle(p) \/ deleteVehicle(p)
    \/ createSchool(p) \/ updateSchool(p)

Spec == Init /\ [][Next]_vars

-----------------------------------------------------------------------------
(* Claims checked under Spec.                                              *)

Done(p) == req[p].pc = "done"

\* the step with which p's write statement runs and its request is answered
Writes(p) == req[p].pc \in {"insert", "write"} /\ req'[p].pc = "done"

\* C1: in every reachable state no two User rows share an email or a
\* phoneNumber, no two Driver rows share a licenseNumber, an aadharNumber or a
\* non-null panNumber, no two Vehicle rows share a registrationNumber and no
\* two School rows share a code.
C1_UniqueValues ==
  /\ \A a, b \in users :
       a # b => a.email # b.email /\ a.phoneNumber # b.phoneNumber
  /\ \A a, b \in drivers :
       a # b => /\ a.licenseNumber # b.licenseNumber
                /\ a.aadharNumber # b.aadharNumber
                /\ (a.panNumber # NULL => a.panNumber # b.panNumber)
  /\ \A a, b \in vehicles : a # b => a.registrationNumber # b.registrationNumber
  /\ \A a, b \in schools : a # b => a.code # b.code

\* a create and an update raced for the email c@x.in, and one of them lost
C1_Witness ==
  \E p, q \in Procs :
    /\ Done(p) /\ Done(q)
    /\ req[p].h = "createUser" /\ req[q].h = "updateUser"
    /\ {req[p].status, req[q].status} \in {{201, 409}, {200, 409}}
    /\ {req[p].err, req[q].err} = {OK, UNIQUE}
    /\ Cardinality({u \in users : u.email = "c@x.in"}) = 1

\* C2: at most one Driver row exists per User (user_uuid), also when two
\* createDriver requests for the same user_uuid with different license,
\* Aadhar and PAN numbers run concurrently.
C2_OneDriverPerUser ==
  \A a, b \in drivers : a.user_uuid = b.user_uuid => a = b

\* The unique values the pending write of p sets, as <<table, column, value>>.
Claimed(p) ==
  LET r == req[p] IN
  IF r.h = "createUser" THEN
    {<<"users", "email", r.loc.body.email>>,
     <<"users", "phoneNumber", r.loc.body.phoneNumber>>}
  ELSE IF r.h = "updateUser" THEN
    {<<"users", k, r.loc.body[k]>> : k \in DOMAIN r.loc.body \cap {"email", "phoneNumber"}}
  ELSE IF r.h = "createDriver" THEN
    {<<"drivers", k, r.body[k]>> :
       k \in {x \in {"licenseNumber", "aadharNumber", "panNumber"} : Truthy(r.body, x)}}
  ELSE IF r.h = "updateDriver" THEN
    {<<"drivers", k, r.loc.body[k]>> :
       k \in {x \in {"licenseNumber", "aadharNumber", "panNumber"} :
                Truthy(r.loc.body, x)}}
  ELSE IF r.h \in {"createVehicle", "updateVehicle"} THEN
    {<<"vehicles", k, r.loc.body[k]>> : k \in DOMAIN r.loc.body \cap {"registrationNumber"}}
  ELSE IF r.h \in {"createSchool", "updateSchool"} THEN
    {<<"schools", k, r.loc.body[k]>> : k \in DOMAIN r.loc.body \cap {"code"}}
  ELSE {}

Table(t) ==
  IF t = "users" THEN users ELSE IF t = "drivers" THEN drivers
  ELSE IF t = "vehicles" THEN vehicles ELSE schools

\* the rows the pending update of p addresses
Addressed(p) ==
  LET r == req[p] IN
  IF r.h = "updateUser" THEN {u \in users : u.uuid = r.param.uuid}
  ELSE IF r.h = "updateDriver" THEN {d \in drivers : d.user_uuid = r.param.uuid}
  ELSE IF r.h = "updateVehicle" THEN {v \in vehicles : v.id = parseInt(r.param.id)}
  ELSE IF r.h = "updateSchool" THEN {x \in schools : x.id = parseInt(r.param.id)}
  ELSE {}

IsUpdate(p) ==
  req[p].h \in {"updateUser", "updateDriver", "updateVehicle", "updateSchool"}

\* p passed its pre-check, and a row other than its own now holds a value
\* its write sets
LostRace(p) ==
  /\ IsUpdate(p) => Addressed(p) # {}
  /\ \E c \in Claimed(p) : \E row \in Table(c[1]) \ Addressed(p) : row[c[2]] = c[3]

\* C3: when two requests that write the same unique value both pass the
\* pre-check before either writes, the one that writes second is answered 409
\* (never 500, never success) and persists nothing.
C3_RaceLoserIs409 ==
  [][\A p \in Procs :
       (Writes(p) /\ LostRace(p)) => (req'[p].status = 409 /\ db' = db)]_vars

\* createDriver and updateDriver raced for a licence number: 201 and 409
C3_Witness ==
  \E p, q \in Procs :
    /\ Done(p) /\ Done(q)
    /\ req[p].h = "updateDriver" /\ req[q].h = "createDriver"
    /\ {req[p].status, req[q].status} \in {{201, 409}, {200, 409}}
    /\ \E s \in {p, q} : req[s].status = 409 /\ req[s].err = UNIQUE

-----------------------------------------------------------------------------
(* SpecCascade: hard and soft deletes against creates of dependent rows.   *)

MenuCascade ==
  { Delete("users", "hard", "u1"),
    Delete("users", "soft", "u1"),
    Delete("users", "hard", "u2"),
    Delete("driver", "u1", "hard"),
    Delete("driver", "u1", "soft"),
    Delete("vehicle", "1", "hard"),
    Post("driver", DriverBody("u2", "DL00000002", "100000000002")),
    Post("vehicle", VehicleBody(1, "car", "KA01AB1235", 4)),
    Post("vehicle", VehicleBody(2, "bike", "KA01AB1236", 1)) }

NextCascade ==
  \E p \in Procs :
    \/ Start(p, MenuCascade)
    \/ createUser(p) \/ createDriver(p) \/ createVehicle(p) \/ createSchool(p)
    \/ deleteUser(p) \/ deleteDriver(p) \/ deleteVehicle(p)

SpecCascade == Init /\ [][NextCascade]_vars

RefIntegrity ==
  /\ \A d \in drivers : \E u \in users : u.uuid = d.user_uuid
  /\ \A v \in vehicles : \E d \in drivers : d.id = v.driverId

\* the step with which the hard delete of p is executed and answered 200
HardDeletes(p, h) ==
  /\ req[p].h = h /\ req[p].pc = "write"
  /\ req'[p].pc = "done" /\ req'[p].status = 200
  /\ req[p].request.path[IF h = "deleteUser" THEN 3 ELSE 4] = "hard"

\* C4: a hard delete of a User removes the Driver rows of that user and the
\* Vehicle rows of those drivers, a hard delete of a Driver removes the
\* Vehicle rows with its id as driverId, and in every state each Driver's
\* user_uuid names a User and each Vehicle's driverId names a Driver.
C4_Cascade ==
  /\ []RefIntegrity
  /\ [][\A p \in Procs :
          /\ HardDeletes(p, "deleteUser") =>
               /\ \A u \in users' : u.uuid # req[p].param.uuid
               /\ \A d \in drivers' : d.user_uuid # req[p].param.uuid
               /\ \A v \in vehicles' : \A d \in drivers :
                    d.user_uuid = req[p].param.uuid => v.driverId # d.id
          /\ HardDeletes(p, "deleteDriver") =>
               /\ \A d \in drivers' : d.user_uuid # req[p].param.uuid
               /\ \A v \in vehicles' : \A d \in drivers :
                    d.user_uuid = req[p].param.uuid => v.driverId # d.id]_vars

\* the user u1 was hard-deleted while it had a driver with a vehicle
C4_Witness ==
  \E p \in Procs :
    /\ Done(p) /\ req[p].h = "deleteUser" /\ req[p].status = 200
    /\ req[p].param = [deleteType |-> "hard", uuid |-> "u1"]
    /\ users # {} /\ drivers = {} /\ vehicles = {}
    /\ seq.vehicles >= 1 /\ seq.drivers >= 1

-----------------------------------------------------------------------------
(* SpecVehicle: creates and partial updates of vehicleType and capacity.   *)

MenuVehicle ==
  { Patch("vehicle", "1", [vehicleType |-> "bike"]),
    Patch("vehicle", "1", [vehicleType |-> "bus"]),
    Patch("vehicle", "1", [capacity |-> 8]),
    Patch("vehicle", "1", [capacity |-> 9]),
    Patch("vehicle", "1", [vehicleType |-> "van", capacity |-> 12]),
    Post("vehicle", VehicleBody(1, "car", "KA01AB1235", 3)),
    Post("vehicle", VehicleBody(1, "bike", "KA01AB1235", 2)) }

NextVehicle ==
  \E p \in Procs :
    \/ Start(p, MenuVehicle)
    \/ createUser(p) \/ createDriver(p) \/ createVehicle(p) \/ createSchool(p)
    \/ updateVehicle(p)

SpecVehicle == Init /\ [][NextVehicle]_vars

\* C5: in every reachable state the capacity of every Vehicle row lies in the
\* range of that row's own vehicleType, also after an update that changes
\* only vehicleType or only capacity.
C5_CapacityInRange ==
  \A v \in vehicles :
    /\ v.vehicleType \in VehicleTypes
    /\ v.capacity >= capacityLimits[v.vehicleType].min
    /\ v.capacity <= capacityLimits[v.vehicleType].max

-----------------------------------------------------------------------------
(* SpecStatus: the driver's lifecycle status, with time passing.           *)

MenuStatus ==
  { Patch("driver", "u1", [status |-> "approved"]),
    Patch("driver", "u1", [status |-> "approved", rejectionReason |-> "docs"]),
    Patch("driver", "u1", [status |-> "rejected"]),
    Patch("driver", "u1", [status |-> "rejected", rejectionReason |-> "docs"]),
    Patch("driver", "u1", [rejectionReason |-> "late"]),
    Patch("driver", "u1", [isOnline |-> TRUE]),
    Delete("driver", "u1", "soft"),
    Delete("driver", "u1", "hard") }

NextStatus ==
  \/ Tick
  \/ \E p \in Procs :
       \/ Start(p, MenuStatus)
       \/ createUser(p) \/ createDriver(p) \/ createVehicle(p) \/ createSchool(p)
       \/ updateDriver(p) \/ deleteDriver(p)

SpecStatus == Init /\ [][NextStatus]_vars

\* the step with which updateDriver of p writes and is answered 200
UpdatesDriver(p) ==
  /\ req[p].h = "updateDriver" /\ req[p].pc = "write"
  /\ req'[p].pc = "done" /\ req'[p].status = 200

\* <<row before, row after>> of each Driver row the write of p addresses
Rewritten(p) ==
  {x \in drivers \X drivers' :
     x[1].id = x[2].id /\ x[1].user_uuid = req[p].param.uuid}

BodyStatus(p, s) == Has(req[p].body, "status") /\ req[p].body.status = s

\* the status of the row the handler read is the stored status it compares
Approving(p) == BodyStatus(p, "approved") /\ req[p].loc.existing.status # "approved"

Rejecting(p) == BodyStatus(p, "rejected") /\ req[p].loc.existing.status # "rejected"

Stamp(p, t) == t # NoTime /\ t >= req[p].at /\ t <= now

\* C6: updateDriver stamps approvedAt with the request time and nulls
\* rejectedAt and rejectionReason exactly when the body's status is approved
\* and the stored status is not (whatever rejectionReason the body carries);
\* approving an approved driver leaves approvedAt and rejectedAt as stored.
C6_ApproveStamps ==
  [][\A p \in Procs : UpdatesDriver(p) =>
       \A x \in Rewritten(p) :
         IF Approving(p)
           THEN /\ Stamp(p, x[2].approvedAt)
                /\ x[2].rejectedAt = NoTime
                /\ x[2].rejectionReason = NULL
           ELSE /\ x[2].approvedAt \in {x[1].approvedAt, NoTime}
                /\ BodyStatus(p, "approved") =>
                     /\ x[2].approvedAt = x[1].approvedAt
                     /\ x[2].rejectedAt = x[1].rejectedAt]_vars

\* a pending driver was approved by a body that carried a rejectionReason,
\* and approved again at a later time
C6_Witness ==
  \E p, q \in Procs : \E d \in drivers :
    /\ Done(p) /\ req[p].h = "updateDriver" /\ req[p].status = 200
    /\ req[p].body = [status |-> "approved", rejectionReason |-> "docs"]
    /\ req[p].loc.existing.status = "pending"
    /\ Done(q) /\ req[q].h = "updateDriver" /\ req[q].status = 200
    /\ req[q].body = [status |-> "approved"]
    /\ req[q].loc.existing.status = "approved"
    /\ d.status = "approved" /\ d.approvedAt # NoTime /\ d.approvedAt < req[q].at
    /\ d.rejectionReason = NULL /\ d.rejectedAt = NoTime

\* C7: updateDriver stamps rejectedAt with the request time and nulls
\* approvedAt exactly when the body's status is rejected and the stored status
\* is not; rejectionReason becomes the body's value if it has one and stays as
\* stored otherwise, and the request is never refused for lacking one.
C7_RejectStamps ==
  [][\A p \in Procs :
       /\ UpdatesDriver(p) =>
            \A x \in Rewritten(p) :
              IF Rejecting(p)
                THEN /\ Stamp(p, x[2].rejectedAt)
                     /\ x[2].approvedAt = NoTime
                     /\ x[2].rejectionReason =
                          IF Has(req[p].body, "rejectionReason")
                            THEN req[p].body.rejectionReason
                            ELSE x[1].rejectionReason
                ELSE /\ x[2].rejectedAt \in {x[1].rejectedAt, NoTime}
                     /\ BodyStatus(p, "rejected") => x[2].rejectedAt = x[1].rejectedAt
       /\ ( /\ req[p].h = "updateDriver" /\ ~Done(p) /\ req'[p].pc = "done"
            /\ BodyStatus(p, "rejected") /\ Addressed(p) # {} )
          => req'[p].status = 200]_vars

\* a pending driver with a stored reason was rejected without a reason
C7_Witness ==
  \E p \in Procs : \E d \in drivers :
    /\ Done(p) /\ req[p].h = "updateDriver" /\ req[p].status = 200
    /\ req[p].body = [status |-> "rejected"]
    /\ req[p].loc.existing.status = "pending"
    /\ req[p].loc.existing.rejectionReason = "late"
    /\ d.status = "rejected" /\ d.rejectedAt # NoTime /\ d.approvedAt = NoTime
    /\ d.rejectionReason = "late"

\* the step with which the soft delete of a driver writes and is answered 200
SoftDeletesDriver(p) ==
  /\ req[p].h = "deleteDriver" /\ req[p].pc = "write"
  /\ req'[p].pc = "done" /\ req'[p].status = 200
  /\ req[p].request.path[4] = "soft"

\* C8 as stated: the soft delete of a Driver answered 200 keeps the row, with
\* status inactive and isOnline false.
C8_SoftDeleteOffline ==
  [][\A p \in Procs : SoftDeletesDriver(p) =>
       \A d \in {x \in drivers : x.user_uuid = req[p].param.uuid} :
         \E d2 \in drivers' :
           d2.id = d.id /\ d2.status = "inactive" /\ d2.isOnline = FALSE]_vars

\* C8: the write of a Driver soft delete answered 200 keeps every Driver row
\* it addresses, sets its status to inactive and leaves its isOnline as it was.
C8_SoftDeleteKeepsOnline ==
  [][\A p \in Procs : SoftDeletesDriver(p) =>
       /\ \A d \in drivers : \E d2 \in drivers' : d2.id = d.id
       /\ \A x \in Rewritten(p) :
            x[2].status = "inactive" /\ x[2].isOnline = x[1].isOnline]_vars

\* a driver that had gone online was then soft-deleted
C8_Witness ==
  \E p \in Procs : \E d \in drivers :
    /\ Done(p) /\ req[p].h = "deleteDriver" /\ req[p].status = 200
    /\ req[p].request.path[4] = "soft"
    /\ d.user_uuid = req[p].param.uuid
    /\ d.status = "inactive" /\ d.isOnline = TRUE
    /\ d.lastOnlineAt # NoTime /\ d.lastOnlineAt < req[p].at

-----------------------------------------------------------------------------
(* SpecDelete: DELETE requests with every kind of mode segment.            *)

MenuDelete ==
  { Delete("users", "u2", "soft"),
    Delete("users", "u2", "hard"),
    Delete("users", "soft", "u2"),
    Delete("users", "u2", "SOFT"),
    Delete("driver", "u1", "soft"),
    Delete("driver", "u1", "SOFT"),
    Delete("driver", "u1", "purge"),
    Delete("vehicle", "1", "hard"),
    Delete("vehicle", "1", "soft"),
    Delete("vehicle", "1", "SOFT"),
    Delete("vehicle", "1", "purge"),
    Patch("school", "1", [isActive |-> FALSE]),
    Delete("school", "1", "purge"),
    Delete("school", "1", "hard"),
    Delete("school", "1", "soft"),
    DeleteWithBody("school", "1", "soft"),
    DeleteWithBody("school", "1", "SOFT") }

NextDelete ==
  \E p \in Procs :
    \/ Start(p, MenuDelete)
    \/ createUser(p) \/ createDriver(p) \/ createVehicle(p) \/ createSchool(p)
    \/ deleteUser(p) \/ deleteDriver(p) \/ deleteVehicle(p) \/ updateSchool(p)

SpecDelete == Init /\ [][NextDelete]_vars

IsDelete(p) == req[p].request.method = "DELETE" /\ Len(req[p].request.path) = 4

\* C9: for each of the four entities a DELETE whose mode segment is not
\* literally soft or hard (SOFT included) is answered 400 and changes no row.
C9_BadModeIs400 ==
  [][\A p \in Procs :
       ( /\ req'[p].pc = "done" /\ req'[p] # req[p]
         /\ req'[p].request.method = "DELETE"
         /\ Len(req'[p].request.path) = 4
         /\ req'[p].request.path[4] \notin {"soft", "hard"} )
       => (req'[p].status = 400 /\ db' = db)]_vars

\* C10: DELETE /users/delete/<uuid>/soft for an existing user is answered 200
\* with the user kept and isActive false; with hard it is answered 200 and
\* the user is removed.
C10_UserDeletePath ==
  [][\A p \in Procs :
       ( /\ req'[p].pc = "done" /\ req'[p] # req[p]
         /\ IsDelete(p)
         /\ req[p].request.path[1] = "users"
         /\ req[p].request.path[4] \in {"soft", "hard"}
         /\ \E u \in users : u.uuid = req[p].request.path[3] )
       => /\ req'[p].status = 200
          /\ \A u \in users : u.uuid = req[p].request.path[3] =>
               IF req[p].request.path[4] = "soft"
                 THEN \E u2 \in users' : u2.id = u.id /\ u2.isActive = FALSE
                 ELSE \A u2 \in users' : u2.id # u.id]_vars

\* the step with which the request of p is answered
Answers(p) == req'[p].pc = "done" /\ req'[p] # req[p]

\* C11: DELETE /school/delete/<id>/hard for an existing School is answered
\* 200 and removes the row; with soft it is answered 200 and leaves the row
\* with isActive false and every other field but updatedAt as it was.
C11_SchoolDelete ==
  [][\A p \in Procs : \A s \in schools :
       ( /\ Answers(p)
         /\ req'[p].request.method = "DELETE"
         /\ req'[p].request.path[1] = "school"
         /\ Len(req'[p].request.path) = 4
         /\ req'[p].request.path[3] \in DOMAIN IntTable
         /\ s.id = IntTable[req'[p].request.path[3]]
         /\ req'[p].request.path[4] \in {"soft", "hard"} )
       => /\ req'[p].status = 200
          /\ IF req'[p].request.path[4] = "hard"
               THEN \A s2 \in schools' : s2.id # s.id
               ELSE \E s2 \in schools' :
                      s2 = [s EXCEPT !.isActive = FALSE, !.updatedAt = s2.updatedAt]]_vars

-----------------------------------------------------------------------------
(* SpecRead: reads of a School against updates of it.                      *)

MenuRead ==
  { Get("school", "DPS_001"),
    Get("school", "dps_001"),
    Get("school", "1"),
    Get("school", "2"),
    Patch("school", "1", [isActive |-> FALSE]),
    Post("school", SchoolBody("DPS_002")) }

NextRead ==
  \E p \in Procs :
    \/ Start(p, MenuRead)
    \/ createUser(p) \/ createDriver(p) \/ createVehicle(p) \/ createSchool(p)
    \/ updateSchool(p) \/ getSchoolById(p)

SpecRead == Init /\ [][NextRead]_vars

\* C12: GET /school/get/<code>, where <code> is not a number and is, in any
\* letter case, the code of an existing School, is answered 200 with that
\* School's row.
C12_GetSchoolByCode ==
  [][\A p \in Procs : \A s \in schools :
       ( /\ Answers(p)
         /\ req'[p].request.method = "GET"
         /\ req'[p].request.path[1] = "school"
         /\ req'[p].request.path[2] = "get"
         /\ req'[p].request.path[3] \notin DOMAIN IntTable
         /\ s.code = toUpperCase(req'[p].request.path[3]) )
       => (req'[p].status = 200 /\ req'[p].data = {s})]_vars

-----------------------------------------------------------------------------
(* Claims checked under SpecDelete, continued.                             *)

\* the rows DELETE /<entity>/delete/<id>/<mode> addresses, and their being
\* inactive
Entity(e, id) ==
  IF e = "users" THEN {u \in users : u.uuid = id}
  ELSE IF e = "driver" THEN {d \in drivers : d.user_uuid = id}
  ELSE IF e = "vehicle" THEN {v \in vehicles : id \in DOMAIN IntTable /\ v.id = IntTable[id]}
  ELSE {x \in schools : id \in DOMAIN IntTable /\ x.id = IntTable[id]}

Inactive(e, row) == IF e = "driver" THEN row.status = "inactive" ELSE ~row.isActive

EntityNext(e, id) ==
  IF e = "users" THEN {u \in users' : u.uuid = id}
  ELSE IF e = "driver" THEN {d \in drivers' : d.user_uuid = id}
  ELSE IF e = "vehicle" THEN {v \in vehicles' : id \in DOMAIN IntTable /\ v.id = IntTable[id]}
  ELSE {x \in schools' : id \in DOMAIN IntTable /\ x.id = IntTable[id]}

\* C13: for every entity, the soft delete of an entity that is already
\* inactive is answered 200 and leaves the stored state as it was, apart
\* from updatedAt.
C13_SoftDeleteIdempotent ==
  [][\A p \in Procs :
       LET path == req'[p].request.path IN
       ( /\ Answers(p)
         /\ req'[p].request.method = "DELETE" /\ Len(path) = 4
         /\ path[4] = "soft"
         /\ Entity(path[1], path[3]) # {}
         /\ \A x \in Entity(path[1], path[3]) : Inactive(path[1], x) )
       => /\ req'[p].status = 200
          /\ \A x \in Entity(path[1], path[3]) :
               \E x2 \in EntityNext(path[1], path[3]) :
                 x2 = [x EXCEPT !.updatedAt = x2.updatedAt]]_vars

-----------------------------------------------------------------------------
(* SpecUpdate: partial updates of the four entities, with time passing.    *)

MenuUpdate ==
  { Patch("users", "u1", [isActive |-> FALSE]),
    Patch("users", "u1", [createdAt |-> 2]),
    Patch("users", "u1", <<>>),
    Patch("driver", "u1", [isOnline |-> TRUE]),
    Patch("driver", "u1", [status |-> "approved"]),
    Patch("driver", "u1", <<>>),
    Patch("vehicle", "1", [capacity |-> 5]),
    Patch("vehicle", "1", <<>>),
    Patch("school", "1", [isActive |-> FALSE]),
    Patch("school", "1", <<>>) }

NextUpdate ==
  \/ Tick
  \/ \E p \in Procs :
       \/ Start(p, MenuUpdate)
       \/ createUser(p) \/ createDriver(p) \/ createVehicle(p) \/ createSchool(p)
       \/ updateUser(p) \/ updateDriver(p) \/ updateVehicle(p) \/ updateSchool(p)

SpecUpdate == Init /\ [][NextUpdate]_vars

TableNames == {"users", "drivers", "vehicles", "schools"}

TableNext(t) ==
  IF t = "users" THEN users' ELSE IF t = "drivers" THEN drivers'
  ELSE IF t = "vehicles" THEN vehicles' ELSE schools'

\* the step with which the write of a PATCH runs and is answered 200
PatchWrites(p) ==
  /\ req[p].pc = "write" /\ req[p].request.method = "PATCH"
  /\ req'[p].pc = "done" /\ req'[p].status = 200

\* the columns the PATCH of p may change
MayChange(p) ==
  ( DOMAIN req[p].body \cup {"updatedAt"}
    \cup (IF req[p].h = "updateDriver" /\ Has(req[p].body, "status")
            THEN {"approvedAt", "rejectedAt", "rejectionReason"} ELSE {})
    \cup (IF req[p].h = "updateDriver" /\ Has(req[p].body, "isOnline")
            THEN {"lastOnlineAt"} ELSE {}) ) \ {"createdAt"}

\* C14: a PATCH answered 200 changes, in the addressed row, only columns
\* present in the body and updatedAt (for a Driver also the status and online
\* timestamps its rules dictate), never createdAt; it changes no other row,
\* and with an empty body it changes only updatedAt.
C14_PartialUpdateFrame ==
  [][\A p \in Procs : PatchWrites(p) =>
       /\ seq' = seq
       /\ \A t \in TableNames :
            /\ Cardinality(TableNext(t)) = Cardinality(Table(t))
            /\ \A x \in Table(t) : \E x2 \in TableNext(t) :
                 /\ x2.id = x.id /\ DOMAIN x2 = DOMAIN x
                 /\ IF x \in Addressed(p)
                      THEN \A k \in DOMAIN x : x2[k] # x[k] => k \in MayChange(p)
                      ELSE x2 = x]_vars

\* a deactivated user was later patched with an empty body
C14_Witness ==
  \E p \in Procs : \E u \in users :
    /\ Done(p) /\ req[p].h = "updateUser" /\ req[p].status = 200
    /\ req[p].body = <<>>
    /\ u.uuid = req[p].param.uuid
    /\ ~u.isActive /\ u.updatedAt = req[p].loc.updatedAt /\ u.updatedAt > u.createdAt

-----------------------------------------------------------------------------
(* SpecOwn: updates that set a unique column to a value already stored.    *)
(* One request more than elsewhere: two creates and the update after them. *)

MenuOwn ==
  { Post("driver", Put(DriverBody("u2", "DL00000002", "100000000002"),
                       "panNumber", "ABCDE1234G")),
    Post("driver", DriverBody("u2", "DL00000003", "100000000003")),
    Patch("driver", "u2", [licenseNumber |-> "DL00000002"]),
    Patch("driver", "u1", [licenseNumber |-> "DL00000001"]),
    Patch("driver", "u1", [panNumber |-> "ABCDE1234F"]),
    Patch("users", "u1", [email |-> "a@x.in"]),
    Patch("users", "u1", [email |-> "b@x.in"]),
    Patch("users", "u1", [phoneNumber |-> "9000000001"]),
    Patch("vehicle", "1", [registrationNumber |-> "KA01AB1234"]),
    Patch("school", "1", [code |-> "DPS_001"]) }

NextOwn ==
  \E p \in Procs :
    \/ StartUpTo(p, MenuOwn, MaxReq + 1)
    \/ createUser(p) \/ createDriver(p) \/ createVehicle(p) \/ createSchool(p)
    \/ updateUser(p) \/ updateDriver(p) \/ updateVehicle(p) \/ updateSchool(p)

SpecOwn == Init /\ [][NextOwn]_vars

UniqueColumns ==
  {"email", "phoneNumber", "licenseNumber", "aadharNumber", "panNumber",
   "registrationNumber", "code"}

\* the PATCH of p is being answered; its body sets unique columns only
AnswersUniquePatch(p) ==
  /\ Answers(p) /\ req[p].pc # "idle"
  /\ req[p].request.method = "PATCH"
  /\ DOMAIN req[p].body # {} /\ DOMAIN req[p].body \subseteq UniqueColumns

\* C15: an update that sets a unique column to the value the addressed row
\* already holds is answered 200; one that sets it to a value held by a
\* different row is answered 409 and writes nothing.
C15_OwnValueNoConflict ==
  [][\A p \in Procs : AnswersUniquePatch(p) =>
       /\ (\E x \in Addressed(p) : \A k \in DOMAIN req[p].body : x[k] = req[p].body[k])
            => req'[p].status = 200
       /\ ( /\ Addressed(p) # {}
            /\ \E k \in DOMAIN req[p].body :
                 \E x \in Table(IF k \in {"email", "phoneNumber"} THEN "users"
                            ELSE IF k = "registrationNumber" THEN "vehicles"
                            ELSE IF k = "code" THEN "schools" ELSE "drivers")
                      \ Addressed(p) :
                   x[k] = req[p].body[k] )
            => (req'[p].status = 409 /\ db' = db)]_vars

-----------------------------------------------------------------------------
(* SpecCreate: create requests with missing, extra and malformed fields.   *)

Omit(b, f) == [k \in DOMAIN b \ {f} |-> b[k]]

MenuCreate ==
  { Post("users", Omit(UserBody("c@x.in", "9000000003"), f)) : f \in UserRequired }
  \cup
  { Post("driver", Omit(DriverBody("u2", "DL00000002", "100000000002"), f)) :
      f \in DriverRequired }
  \cup
  { Post("vehicle", Omit(VehicleBody(1, "car", "KA01AB1235", 4), f)) :
      f \in VehicleRequired }
  \cup
  { Post("school", Omit(SchoolBody("DPS_002"), f)) : f \in SchoolRequired }
  \cup
  { Post("driver", DriverBody("u2", "DL00000002", "100000000002")),
    Post("driver", [DriverBody("u2", "DL00000002", "100000000002")
                      EXCEPT !.licenseImageUrl = "ftp://x.in/a.jpg"]),
    Post("driver", [DriverBody("u2", "DL00000003", "100000000003")
                      EXCEPT !.aadharImageUrl = "aadhar.jpg"]),
    Post("driver", DriverBody("u2", "DL00000003", "100000000003")
                     @@ [status |-> "approved", isOnline |-> TRUE, totalRides |-> 5]) }

NextCreate ==
  \E p \in Procs :
    \/ Start(p, MenuCreate)
    \/ createUser(p) \/ createDriver(p) \/ createVehicle(p) \/ createSchool(p)

SpecCreate == Init /\ [][NextCreate]_vars

\* the step with which the insert of handler h by p runs and is answered 201
Creates(p, h) ==
  /\ req[p].h = h /\ req[p].pc = "insert"
  /\ req'[p].pc = "done" /\ req'[p].status = 201

\* C16: every Driver row a successful createDriver inserts has status
\* pending, backgroundCheckStatus pending, approvedAt and rejectedAt null,
\* isOnline false and totalRides and totalEarnings zero, whatever keys the
\* request body has.
C16_NewDriverDefaults ==
  [][\A p \in Procs : Creates(p, "createDriver") =>
       \A d \in drivers' \ drivers :
         /\ d.status = "pending" /\ d.backgroundCheckStatus = "pending"
         /\ d.approvedAt = NoTime /\ d.rejectedAt = NoTime
         /\ d.isOnline = FALSE
         /\ d.totalRides = 0 /\ d.totalEarnings = 0]_vars

RequiredOf(e) ==
  IF e = "users" THEN UserRequired ELSE IF e = "driver" THEN DriverRequired
  ELSE IF e = "vehicle" THEN VehicleRequired ELSE SchoolRequired

\* C17: for every entity, a create request that omits a required field is
\* answered 400 with the message '<field> is required' naming an omitted
\* field, and creates no row.
C17_RequiredField ==
  [][\A p \in Procs :
       ( /\ Answers(p)
         /\ req'[p].request.method = "POST"
         /\ RequiredOf(req'[p].request.path[1]) \ DOMAIN req'[p].request.body # {} )
       => /\ req'[p].status = 400
          /\ req'[p].msg[1] \in RequiredOf(req'[p].request.path[1])
                                  \ DOMAIN req'[p].request.body
          /\ req'[p].msg[2] = "is required"
          /\ db' = db]_vars

\* a School create without workingDays and a Driver create without
\* aadharImageUrl were both refused
C17_Witness ==
  \E p, q \in Procs :
    /\ Done(p) /\ req[p].h = "createSchool" /\ req[p].status = 400
    /\ req[p].msg = <<"workingDays", "is required">>
    /\ Done(q) /\ req[q].h = "createDriver" /\ req[q].status = 400
    /\ req[q].msg = <<"aadharImageUrl", "is required">>
    /\ Cardinality(schools) = 1 /\ Cardinality(drivers) = 1

-----------------------------------------------------------------------------
(* Claims checked under SpecCascade, continued.                            *)

\* the create or update of p names a parent row that does not exist
ParentMissing(p) ==
  \/ /\ req[p].h = "createDriver"
     /\ Has(req[p].body, "user_uuid")
     /\ \A u \in users : u.uuid # req[p].body.user_uuid
  \/ /\ req[p].h \in {"createVehicle", "updateVehicle"}
     /\ Has(req[p].body, "driverId")
     /\ \A d \in drivers : d.id # req[p].body.driverId

\* C18: a Driver create naming a User that does not exist, or a Vehicle
\* create or update naming a Driver that does not exist, is answered 404 and
\* persists nothing, also when the parent was hard-deleted after the
\* controller's existence check.
C18_MissingParentIs404 ==
  [][\A p \in Procs :
       (Answers(p) /\ req[p].pc # "idle" /\ ParentMissing(p))
       => (req'[p].status = 404 /\ db' = db)]_vars

-----------------------------------------------------------------------------
(* Claims checked under SpecCreate, continued.                             *)

\* C19: no Driver row stores a licenseImageUrl or an aadharImageUrl that is
\* not an absolute http or https URL: createDriver refuses such a request
\* with 400, by the URL rule updateDriver applies.
C19_DriverImageUrls ==
  \A d \in drivers :
    validateImageUrl(d.licenseImageUrl) /\ validateImageUrl(d.aadharImageUrl)

-----------------------------------------------------------------------------
(* SpecAge: users created and updated with a date of birth, as days pass.  *)

BirthDates ==
  {"2014-01-01", "2013-06-15", "2013-06-16", "1906-01-01", "1905-01-01",
   "1905-12-31", "1900-12-31"}

MenuAge ==
  { Post("users", Put(UserBody("c@x.in", "9000000003"), "dateOfBirth", d)) :
      d \in BirthDates \cup {"15-06-2013"} }
  \cup
  { Patch("users", "u1", [dateOfBirth |-> d]) :
      d \in BirthDates \cup {"15-06-2013", ""} }
  \cup
  { Post("driver", DriverBody("u2", "DL00000002", "100000000002")),
    Post("vehicle", VehicleBody(1, "car", "KA01AB1235", 4)),
    Post("school", SchoolBody("DPS_002")) }

NextAge ==
  \/ Tick
  \/ \E p \in Procs :
       \/ Start(p, MenuAge)
       \/ createUser(p) \/ createDriver(p) \/ createVehicle(p) \/ createSchool(p)
       \/ updateUser(p)

SpecAge == Init /\ [][NextAge]_vars

\* the age in whole years, when the clock reads t, of someone born on d
WholeYears(d, t) ==
  LET born == DateTable[d]
      day == Today(t)
  IN day[1] - born[1]
     - (IF day[2] < born[2] \/ (day[2] = born[2] /\ day[3] < born[3])
          THEN 1 ELSE 0)

\* the step of createUser or updateUser that validates a well-formed,
\* non-empty dateOfBirth (these requests carry no other invalid field)
ChecksAge(p) ==
  /\ req[p].pc = "start" /\ req'[p] # req[p]
  /\ req[p].h \in {"createUser", "updateUser"}
  /\ req[p].hasBody
  /\ Truthy(req[p].body, "dateOfBirth")
  /\ validateDateFormat(req[p].body.dateOfBirth)

RefusedForAge(p) ==
  /\ req'[p].pc = "done" /\ req'[p].status = 400
  /\ req'[p].msg = <<"Age must be between 13 and 120 years">>

\* C20: createUser and updateUser accept a non-empty dateOfBirth only if the
\* age in whole years on the request date is between 13 and 120 inclusive;
\* every other birth date, whether or not the birthday has occurred in the
\* current year, is answered 400 'Age must be between 13 and 120 years' and
\* nothing is written.
C20_AgeBetween13And120 ==
  [][\A p \in Procs : ChecksAge(p) =>
       IF WholeYears(req[p].body.dateOfBirth, now) \in 13..120
         THEN ~RefusedForAge(p)
         ELSE RefusedForAge(p) /\ UNCHANGED db]_vars

-----------------------------------------------------------------------------
(* SpecList: the four list endpoints under every shape of page and limit.  *)

PageValues == {"", "2", "-1", "0", "101", "abc"}

\* the query strings with page and limit absent or drawn from PageValues
Paging ==
  {<<>>}
  \cup {[page |-> x] : x \in PageValues}
  \cup {[limit |-> y] : y \in PageValues}
  \cup {[page |-> x, limit |-> y] : x \in PageValues, y \in PageValues}

MenuList ==
  {List("users", "get-all", q) : q \in Paging}
  \cup
  {List(e[1], e[2], q) :
     e \in {<<"driver", "get-all">>, <<"vehicle", "get-all">>,
            <<"school", "get-filtered">>},
     q \in {<<>>, [page |-> "abc"], [limit |-> "abc"], [page |-> "2", limit |-> "1"]}}
  \cup
  { Post("users", UserBody("c@x.in", "9000000003")),
    Post("driver", DriverBody("u2", "DL00000002", "100000000002")),
    Post("vehicle", VehicleBody(1, "car", "KA01AB1235", 4)),
    Post("school", SchoolBody("DPS_002")) }

NextList ==
  \E p \in Procs :
    \/ Start(p, MenuList)
    \/ createUser(p) \/ createDriver(p) \/ createVehicle(p) \/ createSchool(p)
    \/ getUsers(p) \/ getAllDrivers(p) \/ getVehicles(p) \/ getSchools(p)

SpecList == Init /\ [][NextList]_vars

ListHandlers == {"getUsers", "getAllDrivers", "getVehicles", "getSchools"}

\* the step with which a list request of p is answered
AnswersList(p) == Answers(p) /\ req'[p].h \in ListHandlers

\* C21: for every list endpoint and every pair of page and limit values
\* (absent, empty, numeric, negative, zero, above 100, not a number) the
\* request is answered with a pagination block whose page is an integer of
\* at least 1 and whose limit is an integer from 1 to 100, page 1 and limit
\* 10 when the parameter is absent.
C21_EffectivePageAndLimit ==
  [][\A p \in Procs : AnswersList(p) =>
       LET q == req'[p].request.query
           pg == req'[p].pagination
       IN /\ req'[p].status = 200
          /\ pg.page # NaN /\ pg.page >= 1
          /\ pg.limit # NaN /\ pg.limit >= 1 /\ pg.limit <= 100
          /\ ~Has(q, "page") => pg.page = 1
          /\ ~Has(q, "limit") => pg.limit = 10]_vars

-----------------------------------------------------------------------------
(* SpecPage: pages of the lists while rows are being created.              *)

MenuPage ==
  { List("users", "get-all", <<>>),
    List("users", "get-all", [limit |-> "1"]),
    List("users", "get-all", [page |-> "2", limit |-> "1"]),
    List("users", "get-all", [page |-> "2", limit |-> "2"]),
    List("users", "get-all", [page |-> "3", limit |-> "1"]),
    List("users", "get-all", [page |-> "10"]),
    List("users", "get-all", [isActive |-> "true", page |-> "2", limit |-> "1"]),
    List("users", "get-all", [isActive |-> "false"]),
    List("driver", "get-all", [status |-> "pending"]),
    List("vehicle", "get-all", [page |-> "2", limit |-> "1"]),
    List("school", "get-filtered", [limit |-> "1"]),
    Post("users", UserBody("c@x.in", "9000000003")),
    Post("vehicle", VehicleBody(1, "car", "KA01AB1235", 4)) }

NextPage ==
  \/ Tick
  \/ \E p \in Procs :
       \/ Start(p, MenuPage)
       \/ createUser(p) \/ createDriver(p) \/ createVehicle(p) \/ createSchool(p)
       \/ getUsers(p) \/ getAllDrivers(p) \/ getVehicles(p) \/ getSchools(p)

SpecPage == Init /\ [][NextPage]_vars

\* the table a list handler reads
Listed(h) ==
  IF h = "getUsers" THEN users ELSE IF h = "getAllDrivers" THEN drivers
  ELSE IF h = "getVehicles" THEN vehicles ELSE schools

\* C22: a list request with effective page p and limit l over a table of
\* which total rows match the filter, with no write between its count and
\* its select, is answered with totalPages = ceil(total/l), hasNext =
\* (p < totalPages), hasPrev = (p > 1) and exactly
\* min(l, max(0, total - (p-1)*l)) rows, which are the rows from position
\* (p-1)*l + 1 on in the order newest first.
C22_PageArithmetic ==
  [][\A p \in Procs :
       AnswersList(p) /\ req'[p].status = 200 =>
       LET pg == req'[p].pagination
           data == req'[p].data
           rows == {row \in Listed(req'[p].h) :
                      Where(req'[p].h, req'[p].request.query, row)}
           skipped == (pg.page - 1) * pg.limit
           rest == IF pg.total - skipped >= 0 THEN pg.total - skipped ELSE 0
       IN pg.page # NaN /\ pg.limit # NaN /\ Cardinality(rows) = pg.total =>
          /\ pg.totalPages * pg.limit >= pg.total
          /\ (pg.totalPages - 1) * pg.limit < pg.total \/ pg.totalPages = 0
          /\ pg.hasNext = (pg.page < pg.totalPages)
          /\ pg.hasPrev = (pg.page > 1)
          /\ data \subseteq rows
          /\ Cardinality(data) = (IF pg.limit <= rest THEN pg.limit ELSE rest)
          /\ \A x \in data :
               /\ Cardinality({y \in rows : y.createdAt > x.createdAt})
                    < skipped + Cardinality(data)
               /\ Cardinality({y \in rows : y.createdAt >= x.createdAt})
                    > skipped]_vars

\* the second page of two of three users: the one oldest user
C22_Witness ==
  \E p \in Procs :
    /\ req[p].pc = "done" /\ req[p].h = "getUsers" /\ req[p].status = 200
    /\ req[p].pagination =
         [page |-> 2, limit |-> 2, total |-> 3, totalPages |-> 2,
          hasNext |-> FALSE, hasPrev |-> TRUE]
    /\ Cardinality(req[p].data) = 1
    /\ Cardinality(users) = 3

-----------------------------------------------------------------------------
(* SpecFilter: list requests with numeric range filters, over the          *)
(* provisioned tables.                                                      *)

RangeKeys ==
  {"totalRidesFrom", "totalRidesTo", "totalEarningsFrom", "totalEarningsTo",
   "yearFrom", "yearTo"}

MenuFilter ==
  {List("driver", "get-all", q) :
     q \in {<<>>, [totalRidesFrom |-> "1"], [totalRidesFrom |-> "abc"],
            [totalRidesTo |-> "0"], [totalRidesTo |-> "abc"],
            [totalEarningsFrom |-> "abc"], [totalEarningsTo |-> "-1"],
            [totalEarningsTo |-> "abc", status |-> "pending"]}}
  \cup
  {List("vehicle", "get-all", q) :
     q \in {<<>>, [yearFrom |-> "2020"], [yearFrom |-> "2021"],
            [yearFrom |-> "abc"], [yearTo |-> "abc"], [yearTo |-> "2021"],
            [yearFrom |-> "abc", vehicleType |-> "car"]}}
  \cup
  { List("users", "get-all", [isActive |-> "true"]),
    List("school", "get-filtered", [isActive |-> "false"]) }

NextFilter ==
  \E p \in Procs :
    \/ Start(p, MenuFilter)
    \/ createUser(p) \/ createDriver(p) \/ createVehicle(p) \/ createSchool(p)
    \/ getUsers(p) \/ getAllDrivers(p) \/ getVehicles(p) \/ getSchools(p)

SpecFilter == Init /\ [][NextFilter]_vars

\* C23: a numeric range parameter of a list request (totalRidesFrom/To,
\* totalEarningsFrom/To of Drivers, yearFrom/yearTo of Vehicles) whose value
\* does not parse as a number contributes no predicate: the request is
\* answered 200 with the total and the rows of the same request without
\* that parameter.
C23_UnparseableRangeIgnored ==
  [][\A p \in Procs : AnswersList(p) =>
       LET h == req'[p].h
           q == req'[p].request.query
           bad == {k \in RangeKeys : Truthy(q, k) /\ isNaN(q[k])}
           without == [k \in DOMAIN q \ bad |-> q[k]]
           rows == {row \in Listed(h) : Where(h, without, row)}
       IN bad # {} =>
            /\ req'[p].status = 200
            /\ req'[p].pagination.total = Cardinality(rows)
            /\ req'[p].data = rows]_vars

-----------------------------------------------------------------------------
(* SpecOnline: drivers going online and offline, as time passes.           *)

MenuOnline ==
  { Patch("driver", "u1", [isOnline |-> TRUE]),
    Patch("driver", "u1", [isOnline |-> FALSE]),
    Patch("driver", "u1", [status |-> "approved"]),
    Patch("driver", "u1", [isOnline |-> TRUE, licenseNumber |-> "DL00000002"]),
    Patch("driver", "u1", <<>>),
    Delete("driver", "u1", "soft") }

NextOnline ==
  \/ Tick
  \/ \E p \in Procs :
       \/ Start(p, MenuOnline)
       \/ createUser(p) \/ createDriver(p) \/ createVehicle(p) \/ createSchool(p)
       \/ updateDriver(p) \/ deleteDriver(p)

SpecOnline == Init /\ [][NextOnline]_vars

\* the isOnline of the row the handler read is the stored value it compares
Toggling(p) ==
  /\ Has(req[p].body, "isOnline")
  /\ req[p].body.isOnline # req[p].loc.existing.isOnline

\* C24: updateDriver sets lastOnlineAt to the request time exactly when the
\* body contains isOnline and its value differs from the stored isOnline;
\* when isOnline is absent or equal to the stored value, lastOnlineAt is left
\* as it was.
C24_OnlineStamp ==
  [][\A p \in Procs : UpdatesDriver(p) =>
       \A x \in Rewritten(p) :
         IF Toggling(p)
           THEN Stamp(p, x[2].lastOnlineAt) /\ x[2].isOnline = req[p].body.isOnline
           ELSE x[2].lastOnlineAt = x[1].lastOnlineAt]_vars

\* a driver went online, and a later request to go online left the stamp
\* of the first
C24_Witness ==
  \E p, q \in Procs : \E d \in drivers :
    /\ Done(p) /\ req[p].h = "updateDriver" /\ req[p].status = 200
    /\ req[p].body = [isOnline |-> TRUE] /\ ~req[p].loc.existing.isOnline
    /\ Done(q) /\ req[q].h = "updateDriver" /\ req[q].status = 200
    /\ req[q].body = [isOnline |-> TRUE] /\ req[q].loc.existing.isOnline
    /\ d.user_uuid = "u1" /\ d.isOnline
    /\ d.lastOnlineAt # NoTime /\ d.lastOnlineAt < req[q].at

-----------------------------------------------------------------------------
(* SpecInvalid: create requests that carry one invalid field value, with    *)
(* and without their parent row and with and without a uniqueness conflict. *)

InvalidCreates ==
  { Post("users", [UserBody("c@x.in", "9000000003") EXCEPT !.firstName = "R2"]),
    Post("users", [UserBody("a@x.in", "9000000001") EXCEPT !.lastName = "R2"]),
    Post("users", Put(UserBody("a@x.in", "9000000003"), "dateOfBirth", "2014-01-01")),
    Post("driver", [DriverBody("u2", "DL00000002", "100000000002")
                      EXCEPT !.aadharNumber = "12"]),
    Post("driver", [DriverBody("u9", "DL00000002", "100000000002")
                      EXCEPT !.licenseNumber = "DL"]),
    Post("driver", [DriverBody("u1", "DL00000001", "100000000001")
                      EXCEPT !.licenseExpiryDate = "2001-01-01"]),
    Post("vehicle", [VehicleBody(1, "car", "KA01AB1235", 4)
                       EXCEPT !.vehicleType = "truck"]),
    Post("vehicle", [VehicleBody(1, "car", "KA01AB1234", 4)
                       EXCEPT !.rcImageUrl = "ftp://x.in/a.jpg"]),
    Post("vehicle", [VehicleBody(9, "car", "KA01AB1235", 4)
                       EXCEPT !.vehicleType = "truck"]),
    Post("vehicle", VehicleBody(9, "car", "KA01AB1235", 40)),
    Post("school", SchoolBody("dps 1")),
    Post("school", SchoolBody("D")) }

MenuInvalid ==
  InvalidCreates
  \cup
  { Post("users", UserBody("c@x.in", "9000000003")),
    Post("driver", DriverBody("u2", "DL00000002", "100000000002")),
    Post("vehicle", VehicleBody(1, "car", "KA01AB1235", 4)),
    Post("vehicle", VehicleBody(9, "car", "KA01AB1235", 4)),
    Post("school", SchoolBody("DPS_002")) }

NextInvalid ==
  \E p \in Procs :
    \/ Start(p, MenuInvalid)
    \/ createUser(p) \/ createDriver(p) \/ createVehicle(p) \/ createSchool(p)

SpecInvalid == Init /\ [][NextInvalid]_vars

\* C25: a create request that carries an invalid field value is answered
\* 400 whatever the tables hold, never 404 (missing parent) or 409
\* (uniqueness conflict): every validation runs before the first query.
C25_InvalidIs400 ==
  [][\A p \in Procs :
       Answers(p) /\ req'[p].request \in InvalidCreates => req'[p].status = 400]_vars

-----------------------------------------------------------------------------
(* SpecReg: registration numbers written with and without spaces.          *)

MenuReg ==
  { Post("vehicle", VehicleBody(1, "car", "KA01AB1235", 4)),
    Post("vehicle", VehicleBody(1, "car", "KA01 AB 1235", 4)),
    Post("vehicle", VehicleBody(1, "car", "KA01 AB 1234", 4)),
    Post("vehicle", VehicleBody(1, "car", "ka01ab1235", 4)),
    Post("vehicle", VehicleBody(1, "car", "KA-01", 4)),
    Patch("vehicle", "1", [registrationNumber |-> "KA01AB1236"]),
    Patch("vehicle", "1", [registrationNumber |-> "KA01 AB  1235"]),
    Patch("vehicle", "1", [registrationNumber |-> "KA-01"]) }

NextReg ==
  \E p \in Procs :
    \/ Start(p, MenuReg)
    \/ createUser(p) \/ createDriver(p) \/ createVehicle(p) \/ createSchool(p)
    \/ updateVehicle(p)

SpecReg == Init /\ [][NextReg]_vars

\* C26: every stored registrationNumber matches, exactly as stored, two
\* uppercase letters, 1-2 digits, 1-2 uppercase letters, 1-4 digits with no
\* white space, and no two Vehicle rows hold registration numbers that
\* differ only by embedded spaces.
C26_RegistrationPattern ==
  /\ \A v \in vehicles : regPattern(v.registrationNumber)
  /\ \A v, w \in vehicles :
       stripSpaces(v.registrationNumber) = stripSpaces(w.registrationNumber)
         => v = w

-----------------------------------------------------------------------------
(* SpecStamps: concurrent status changes of one driver, three requests.    *)

MenuStamps ==
  { Patch("driver", "u1", [status |-> "approved"]),
    Patch("driver", "u1", [status |-> "rejected"]),
    Delete("driver", "u1", "soft") }

NextStamps ==
  \E p \in Procs :
    \/ StartUpTo(p, MenuStamps, MaxReq + 1)
    \/ createUser(p) \/ createDriver(p) \/ createVehicle(p) \/ createSchool(p)
    \/ updateDriver(p) \/ deleteDriver(p)

SpecStamps == Init /\ [][NextStamps]_vars

\* C27: in every reachable state, under every interleaving of concurrent
\* updateDriver and deleteDriver requests on a driver created with the
\* documented fields only, a Driver whose status is approved has a non-null
\* approvedAt and a Driver whose status is rejected has a non-null
\* rejectedAt.
C27_StatusHasStamp ==
  \A d \in drivers :
    /\ d.status = "approved" => d.approvedAt # NoTime
    /\ d.status = "rejected" => d.rejectedAt # NoTime

-----------------------------------------------------------------------------
(* SpecGhost: updates and soft deletes racing the hard delete of their row. *)

MenuGhost ==
  { Patch("users", "u2", [isActive |-> FALSE]),
    Delete("users", "soft", "u2"),
    Delete("users", "hard", "u2"),
    Patch("driver", "u1", [isOnline |-> TRUE]),
    Delete("driver", "u1", "soft"),
    Delete("driver", "u1", "hard"),
    Patch("vehicle", "1", [capacity |-> 5]),
    Delete("vehicle", "1", "soft"),
    Delete("vehicle", "1", "hard") }

NextGhost ==
  \E p \in Procs :
    \/ Start(p, MenuGhost)
    \/ createUser(p) \/ createDriver(p) \/ createVehicle(p) \/ createSchool(p)
    \/ updateUser(p) \/ updateDriver(p) \/ updateVehicle(p)
    \/ deleteUser(p) \/ deleteDriver(p) \/ deleteVehicle(p)

SpecGhost == Init /\ [][NextGhost]_vars

\* the request is a PATCH or a soft delete
UpdateOrSoftDelete(r) ==
  \/ r.method = "PATCH"
  \/ r.method = "DELETE" /\ "soft" \in {r.path[3], r.path[4]}

\* the uuid or id the handler addresses its row with
AddressedId(r) == IF "uuid" \in DOMAIN r.param THEN r.param.uuid ELSE r.param.id

\* C28: an update or a soft delete is answered 200 only if it modified an
\* existing row, and the response carries that row; when the addressed row
\* was hard-deleted after the handler's existence check, the handler does
\* not answer 200 and the row is not re-created.
C28_OkMeansModified ==
  [][\A p \in Procs :
       Answers(p) /\ UpdateOrSoftDelete(req'[p].request) =>
         LET e == req'[p].request.path[1]
             id == AddressedId(req'[p])
         IN /\ req'[p].status = 200 =>
                 /\ Entity(e, id) # {}
                 /\ req'[p].data # {}
                 /\ req'[p].data \subseteq EntityNext(e, id)
            /\ Entity(e, id) = {} => EntityNext(e, id) = {}]_vars

-----------------------------------------------------------------------------
(* SpecClock: concurrent writes to one row while the clock advances.       *)

MenuClock ==
  { Patch("users", "u1", [email |-> "c@x.in"]),
    Patch("users", "u1", [isActive |-> FALSE]),
    Delete("users", "soft", "u1"),
    Patch("driver", "u1", [licenseNumber |-> "DL00000002"]),
    Patch("driver", "u1", [isOnline |-> TRUE]),
    Delete("driver", "u1", "soft"),
    Delete("driver", "u1", "hard"),
    Post("driver", DriverBody("u1", "DL00000003", "100000000003")),
    Patch("vehicle", "1", [capacity |-> 5]),
    Patch("school", "1", [isActive |-> FALSE]) }

NextClock ==
  \/ Tick
  \/ \E p \in Procs :
       \/ StartUpTo(p, MenuClock, MaxReq + 1)
       \/ createUser(p) \/ createDriver(p) \/ createVehicle(p) \/ createSchool(p)
       \/ updateUser(p) \/ updateDriver(p) \/ updateVehicle(p) \/ updateSchool(p)
       \/ deleteUser(p) \/ deleteDriver(p)

SpecClock == Init /\ [][NextClock]_vars

\* C29: with a clock that never goes back, the updatedAt of a row never
\* decreases from one write of that row to the next and is never earlier
\* than the row's createdAt, under every interleaving of concurrent create,
\* update and delete requests.
C29_UpdatedAtMonotonic ==
  [][\A t \in TableNames :
       /\ \A x \in Table(t) : \A y \in TableNext(t) :
            x.id = y.id => y.updatedAt >= x.updatedAt
       /\ \A y \in TableNext(t) : y.updatedAt >= y.createdAt]_vars

-----------------------------------------------------------------------------
(* Claims checked under Spec, continued.                                   *)

\* C30: a request that is answered with a non-2xx status leaves every table
\* as it was: no step of a handler changes a table unless it is the
\* handler's last step and answers 200 or 201, so each handler performs at
\* most one write, after all of its checks.
C30_FailureWritesNothing ==
  [][\A p \in Procs : req'[p] # req[p] =>
       /\ req'[p].status \notin {200, 201} => db' = db
       /\ db' # db => req'[p].pc = "done"]_vars

\* a request passed its checks, its write failed on a unique index, and it
\* was answered 409
C30_Witness ==
  \E p \in Procs :
    /\ Done(p) /\ req[p].status = 409 /\ req[p].err = UNIQUE
    /\ req[p].h \in {"createUser", "updateDriver", "createVehicle", "updateSchool"}

====
